---- MODULE Spec2Model ----
(***************************************************************************)
(* The record cache of dozer-cache (LmdbRwCache / LmdbRoCache) over the    *)
(* LMDB maps of dozer-storage.                                             *)
(*                                                                         *)
(* txn  : the contents seen through the shared write transaction of the    *)
(*        read/write cache (uncommitted state);                            *)
(* env  : the last committed snapshot of the environment (what a read-only *)
(*        cache, or a reopen, sees);                                       *)
(* last : the most recent call: its arguments, what it returned and what   *)
(*        it left in the caller's &mut record;                             *)
(* overflow_checks : the build profile (debug: arithmetic overflow panics, *)
(*        release: it wraps);                                              *)
(* ops  : number of calls made so far;                                     *)
(* issued : every (primary key, record id) pair a write call has given a   *)
(*        record, in the transactions that were not rolled back;           *)
(* lock, threads : the RwLock around the shared write transaction and what *)
(*        each thread of the writing process is doing (Concurrent only);   *)
(* dir  : the sub-databases a directory holds (Opening only);              *)
(* lmdb_map : one LmdbMap inside one write transaction (MapOps only).      *)
(*                                                                         *)
(* Under Spec calls are issued one at a time by one caller thread.  Field  *)
(* positions are 1-based here (0-based in the source).                     *)
(***************************************************************************)
EXTENDS Integers, Sequences, FiniteSets, TLC

VARIABLES txn, env, last, overflow_checks, ops, issued, lock, threads, dir, lmdb_map

vars == <<txn, env, last, overflow_checks, ops, issued, lock, threads, dir, lmdb_map>>

\* what the calls of one caller thread on an open cache leave alone
aside == <<lock, threads, dir, lmdb_map>>

(* ------------------------------ bounds -------------------------------- *)

\* Calls per run.
MaxOps == 3

\* Calls the threads of Concurrent make in all.
MaxCalls == 2

\* Caches opened on one directory under Opening.
MaxOpens == 2

\* Calls on the map under MapOps.
MaxMapOps == 4

\* Length of the byte strings the codec is given.
MaxLen == 2

\* Record ids, and ids in one index scan, under Intersecting.
MaxScan == 3

\* Pairs one extend is given under MapOps.
MaxPairs == 3

\* Calls the threads of Checkpointing make in all.
MaxCheckpointCalls == 3

(* ------------------------- program constants -------------------------- *)

\* A u32 is written as its two 16-bit halves <<high, low>>: its value is
\* high * 2^16 + low.
Half == 2 ^ 16

U32(high, low) == <<high, low>>

U32_MAX == U32(Half - 1, Half - 1)

\* v + 1 as a number (U32_MAX + 1 is <<Half, 0>>, which no u32 holds)
Succ(v) == IF v[2] + 1 < Half THEN <<v[1], v[2] + 1>> ELSE <<v[1] + 1, 0>>

INITIAL_RECORD_VERSION == U32(0, 1)

\* Option<u32>::None of Record::version; Some(v) is v.
None == <<>>

(* ----------------------------- field codec ---------------------------- *)

\* A 64-bit integer (u64, i64 in two's complement, or the bits of an f64)
\* is written as its four 16-bit limbs, most significant first.
U64(n) == <<0, 0, n \div Half, n % Half>>

I64(n) ==
    IF n >= 0 THEN U64(n)
    ELSE <<Half - 1, Half - 1, Half - 1 - ((-n - 1) \div Half),
           Half - 1 - ((-n - 1) % Half)>>

\* A Field value is a record of its variant typ and its payload: v holds the
\* limbs of Int/UInt/Float and the bytes of String/Text/Binary/Bson, b the
\* bool of Boolean, decimal, timestamp and date those of the three others.
\* The parts a variant does not have are those of Null.
Null ==
    [typ |-> "Null", v |-> <<>>, b |-> FALSE,
     decimal |-> [neg |-> FALSE, scale |-> 0, lo |-> U32(0, 0), mid |-> U32(0, 0),
                  hi |-> U32(0, 0)],
     timestamp |-> [millis |-> U64(0), nanos |-> 0, offset |-> 0],
     date |-> [year |-> 0, month |-> 0, day |-> 0]]

Variant(typ, v) == [Null EXCEPT !.typ = typ, !.v = v]

Field_Int(n) == Variant("Int", I64(n))

UInt(n) == Variant("UInt", U64(n))

\* OrderedFloat<f64>, by its IEEE-754 bits
Float(bits) == Variant("Float", bits)

Boolean(b) == [Null EXCEPT !.typ = "Boolean", !.b = b]

String(s) == Variant("String", s)

Text(s) == Variant("Text", s)

Binary(b) == Variant("Binary", b)

\* a Decimal: sign, scale and the 96-bit mantissa as three u32 (lo, mid, hi)
FromDecimal(d) == [Null EXCEPT !.typ = "Decimal", !.decimal = d]

\* Decimal::new(num, scale)
Decimal(num, scale) ==
    FromDecimal([neg |-> num < 0, scale |-> scale,
                 lo |-> IF num < 0 THEN U32((-num) \div Half, (-num) % Half)
                        ELSE U32(num \div Half, num % Half),
                 mid |-> U32(0, 0), hi |-> U32(0, 0)])

\* DateTime<FixedOffset>: the instant is millis milliseconds (an i64) plus
\* nanos nanoseconds (0 .. 999999) after the epoch, shown at offset seconds
\* east of UTC.
Timestamp(millis, nanos, offset) ==
    [Null EXCEPT !.typ = "Timestamp",
                 !.timestamp = [millis |-> millis, nanos |-> nanos, offset |-> offset]]

\* NaiveDate
Date(year, month, day) ==
    [Null EXCEPT !.typ = "Date", !.date = [year |-> year, month |-> month, day |-> day]]

Bson(b) == Variant("Bson", b)

get_type_prefix(f) ==
    CASE f.typ = "Int" -> 0
      [] f.typ = "UInt" -> 1
      [] f.typ = "Float" -> 2
      [] f.typ = "Boolean" -> 3
      [] f.typ = "String" -> 4
      [] f.typ = "Text" -> 5
      [] f.typ = "Binary" -> 6
      [] f.typ = "Decimal" -> 7
      [] f.typ = "Timestamp" -> 8
      [] f.typ = "Date" -> 9
      [] f.typ = "Bson" -> 10
      [] f.typ = "Null" -> 11

NoType == "None"

type_from_prefix(prefix) ==
    CASE prefix = 0 -> "Int"
      [] prefix = 1 -> "UInt"
      [] prefix = 2 -> "Float"
      [] prefix = 3 -> "Boolean"
      [] prefix = 4 -> "String"
      [] prefix = 5 -> "Text"
      [] prefix = 6 -> "Binary"
      [] prefix = 7 -> "Decimal"
      [] prefix = 8 -> "Timestamp"
      [] prefix = 9 -> "Date"
      [] prefix = 10 -> "Bson"
      [] prefix = 11 -> "Null"
      [] OTHER -> NoType

\* the len low-order bytes of n, most significant first
RECURSIVE BigEndian(_, _)
BigEndian(n, len) ==
    IF len = 0 THEN <<>> ELSE Append(BigEndian(n \div 256, len - 1), n % 256)

\* u64::to_be_bytes / i64::to_be_bytes / f64::to_be_bytes
to_be_bytes(v) ==
    BigEndian(v[1], 2) \o BigEndian(v[2], 2) \o BigEndian(v[3], 2) \o BigEndian(v[4], 2)

\* u64::from_be_bytes / i64::from_be_bytes / f64::from_be_bytes of [u8; 8]
from_be_bytes(val) ==
    <<val[1] * 256 + val[2], val[3] * 256 + val[4],
      val[5] * 256 + val[6], val[7] * 256 + val[8]>>

\* u32::to_le_bytes
to_le_bytes(w) == <<w[2] % 256, w[2] \div 256, w[1] % 256, w[1] \div 256>>

\* u32 from four little-endian bytes starting at val[at]
from_le_bytes(val, at) ==
    U32(val[at + 3] * 256 + val[at + 2], val[at + 1] * 256 + val[at])

\* Decimal::serialize: flags (scale in bits 16-23, sign in bit 31), lo, mid,
\* hi, each little-endian
serialize(d) ==
    <<0, 0, d.scale, IF d.neg THEN 128 ELSE 0>>
        \o to_le_bytes(d.lo) \o to_le_bytes(d.mid) \o to_le_bytes(d.hi)

\* Decimal::deserialize of [u8; 16]: the flags are masked with 0x801F_0000.
\* (Scales 29..31, which the library rescales to 28, are not among the
\* inputs used here.)
deserialize(val) ==
    [neg |-> val[4] >= 128, scale |-> val[3] % 32,
     lo |-> from_le_bytes(val, 5), mid |-> from_le_bytes(val, 9),
     hi |-> from_le_bytes(val, 13)]

\* the decimal digits of n, zero-padded to at least width
RECURSIVE Digits(_, _)
Digits(n, width) ==
    IF n < 10 /\ width <= 1 THEN <<48 + n>>
    ELSE Append(Digits(n \div 10, width - 1), 48 + (n % 10))

\* NaiveDate::to_string: "{:04}-{:02}-{:02}" for the years 0..=9999 and
\* "{:+05}-{:02}-{:02}" (explicit sign) for the others
to_string(t) ==
    (IF t.year >= 0 /\ t.year <= 9999 THEN Digits(t.year, 4)
     ELSE IF t.year < 0 THEN <<45>> \o Digits(-t.year, 4)
     ELSE <<43>> \o Digits(t.year, 4))
        \o <<45>> \o Digits(t.month, 2) \o <<45>> \o Digits(t.day, 2)

data_encoding_len(f) ==
    CASE f.typ \in {"Int", "UInt", "Float"} -> 8
      [] f.typ = "Boolean" -> 1
      [] f.typ \in {"String", "Text", "Binary", "Bson"} -> Len(f.v)
      [] f.typ = "Decimal" -> 16
      [] f.typ = "Timestamp" -> 8
      [] f.typ = "Date" -> 10
      [] f.typ = "Null" -> 0

\* timestamp_millis() is the millisecond count of the instant: the
\* nanoseconds below it and the offset are dropped.
encode_data(f) ==
    CASE f.typ \in {"Int", "UInt", "Float"} -> to_be_bytes(f.v)
      [] f.typ = "Boolean" -> IF f.b THEN <<1>> ELSE <<0>>
      [] f.typ \in {"String", "Text", "Binary", "Bson"} -> f.v
      [] f.typ = "Decimal" -> serialize(f.decimal)
      [] f.typ = "Timestamp" -> to_be_bytes(f.timestamp.millis)
      [] f.typ = "Date" -> to_string(f.date)
      [] f.typ = "Null" -> <<>>

\* destination[0] = prefix panics on an empty destination and
\* copy_from_slice panics unless the two slices have the same length.
encode_buf(f, destination) ==
    LET data == encode_data(f) IN
    IF Len(destination) = 0 \/ Len(destination) - 1 # Len(data)
    THEN [panic |-> TRUE, vec |-> <<>>]
    ELSE [panic |-> FALSE, vec |-> <<get_type_prefix(f)>> \o data]

encoding_len(f) == data_encoding_len(f) + 1

\* encode = encode_buf into vec![0; encoding_len]
encode(f) == encode_buf(f, [i \in 1..encoding_len(f) |-> 0])

\* std::str::from_utf8(val).is_ok()
RECURSIVE Utf8Valid(_)
Utf8Valid(s) ==
    LET Cont(i) == Len(s) >= i /\ s[i] >= 128 /\ s[i] <= 191 IN
    IF s = <<>> THEN TRUE
    ELSE IF s[1] < 128 THEN Utf8Valid(Tail(s))
    ELSE IF s[1] >= 194 /\ s[1] <= 223
         THEN Cont(2) /\ Utf8Valid(SubSeq(s, 3, Len(s)))
    ELSE IF s[1] >= 224 /\ s[1] <= 239
         THEN /\ Cont(2) /\ Cont(3)
              /\ (s[1] = 224 => s[2] >= 160)
              /\ (s[1] = 237 => s[2] <= 159)
              /\ Utf8Valid(SubSeq(s, 4, Len(s)))
    ELSE IF s[1] >= 240 /\ s[1] <= 244
         THEN /\ Cont(2) /\ Cont(3) /\ Cont(4)
              /\ (s[1] = 240 => s[2] >= 144)
              /\ (s[1] = 244 => s[2] <= 143)
              /\ Utf8Valid(SubSeq(s, 5, Len(s)))
    ELSE FALSE

\* chrono's year range
MAX_YEAR == 262143

\* chrono format::scan::number(s, 1, max): up to max leading digits, at
\* least one; the value saturates above every valid year
RECURSIVE number(_, _, _, _)
number(s, max, taken, acc) ==
    IF taken < max /\ s # <<>> /\ Head(s) >= 48 /\ Head(s) <= 57
    THEN number(Tail(s), max, taken + 1,
                IF acc > MAX_YEAR THEN acc ELSE acc * 10 + (Head(s) - 48))
    ELSE [ok |-> taken >= 1, v |-> acc, rest |-> s]

\* the whitespace a numeric item skips
RECURSIVE trim_left(_)
trim_left(s) ==
    IF s # <<>> /\ Head(s) \in {9, 10, 11, 12, 13, 32} THEN trim_left(Tail(s)) ELSE s

\* a literal '-' of the format
literal(s) == [ok |-> s # <<>> /\ Head(s) = 45, rest |-> IF s = <<>> THEN s ELSE Tail(s)]

\* days of a month of the proleptic Gregorian calendar
days_in_month(year, month) ==
    IF month \in {4, 6, 9, 11} THEN 30
    ELSE IF month # 2 THEN 31
    ELSE IF year % 4 = 0 /\ (year % 100 # 0 \/ year % 400 = 0) THEN 29
    ELSE 28

\* NaiveDate::parse_from_str(s, "%Y-%m-%d"): %Y takes a sign and then any
\* number of digits, or up to four digits without a sign; %m and %d take
\* one or two digits; nothing may follow; the fields must name a date.
parse_from_str(str) ==
    LET s0 == trim_left(str)
        signed == s0 # <<>> /\ Head(s0) \in {43, 45}
        y == IF signed THEN number(Tail(s0), Len(s0), 0, 0) ELSE number(s0, 4, 0, 0)
        year == IF signed /\ Head(s0) = 45 THEN -y.v ELSE y.v
        l1 == literal(y.rest)
        m == number(trim_left(l1.rest), 2, 0, 0)
        l2 == literal(m.rest)
        d == number(trim_left(l2.rest), 2, 0, 0)
        ok == /\ y.ok /\ l1.ok /\ m.ok /\ l2.ok /\ d.ok
              /\ d.rest = <<>>
              /\ year >= -MAX_YEAR - 1 /\ year <= MAX_YEAR
              /\ m.v >= 1 /\ m.v <= 12
              /\ d.v >= 1 /\ d.v <= days_in_month(year, m.v)
    IN  IF ok THEN [ok |-> TRUE, date |-> [year |-> year, month |-> m.v, day |-> d.v]]
        ELSE [ok |-> FALSE, date |-> [year |-> 0, month |-> 0, day |-> 0]]

\* Utc.timestamp_millis(ms) is timestamp_millis_opt(ms).unwrap(): it panics
\* when ms is outside chrono's range of +-262143 years, a bound between 2^52
\* and 2^53 ms.  The i64 is in range when it fits in 53 bits (no input used
\* here lies between the two).
timestamp_millis_in_range(v) == v[1] < 32 \/ v[1] >= Half - 32

EmptyInput == "EmptyInput"

UnrecognisedFieldType == "UnrecognisedFieldType"

BadDataLength == "BadDataLength"

Utf8Error == "Utf8"

Panic == "panic"

NoField == [Null EXCEPT !.typ = "None"]

Ok(f) == [res |-> "Ok", field |-> f, err |-> ""]

Err(e) == [res |-> "Err", field |-> NoField, err |-> e]

Panicked == [res |-> Panic, field |-> NoField, err |-> ""]

\* Field::decode_borrow, which indexes val[0] for a Boolean and unwraps the
\* parsed date
decode_borrow(buf) ==
    IF buf = <<>> THEN Err(EmptyInput)
    ELSE LET first_byte == buf[1]
             return_type == type_from_prefix(first_byte)
             val == Tail(buf)
         IN  CASE return_type = NoType -> Err(UnrecognisedFieldType)
               [] return_type \in {"Int", "UInt", "Float"} ->
                    IF Len(val) # 8 THEN Err(BadDataLength)
                    ELSE Ok(Variant(return_type, from_be_bytes(val)))
               [] return_type = "Boolean" ->
                    IF Len(val) = 0 THEN Panicked ELSE Ok(Boolean(val[1] = 1))
               [] return_type \in {"String", "Text"} ->
                    IF ~Utf8Valid(val) THEN Err(Utf8Error)
                    ELSE Ok(Variant(return_type, val))
               [] return_type \in {"Binary", "Bson"} ->
                    Ok(Variant(return_type, val))
               [] return_type = "Decimal" ->
                    IF Len(val) # 16 THEN Err(BadDataLength)
                    ELSE Ok(FromDecimal(deserialize(val)))
               [] return_type = "Timestamp" ->
                    IF Len(val) # 8 THEN Err(BadDataLength)
                    ELSE IF ~timestamp_millis_in_range(from_be_bytes(val)) THEN Panicked
                    ELSE Ok(Timestamp(from_be_bytes(val), 0, 0))
               [] return_type = "Date" ->
                    IF ~Utf8Valid(val) THEN Err(Utf8Error)
                    ELSE IF ~parse_from_str(val).ok THEN Panicked
                    ELSE LET t == parse_from_str(val).date IN
                         Ok(Date(t.year, t.month, t.day))
               [] return_type = "Null" -> Ok(Null)

\* Field::decode = decode_borrow, then to_owned
decode(buf) == decode_borrow(buf)

(* ------------------------------- LmdbMap ------------------------------ *)
\* A map is a function whose domain is the set of keys present.

EmptyMap == <<>>

LmdbMap_count(m) == Cardinality(DOMAIN m)

\* Option: present keys give [some |-> TRUE, v |-> value]
LmdbMap_get(m, k) ==
    IF k \in DOMAIN m THEN [some |-> TRUE, v |-> m[k]] ELSE [some |-> FALSE]

Put(m, k, v) == [x \in DOMAIN m \cup {k} |-> IF x = k THEN v ELSE m[x]]

\* a put without NO_OVERWRITE
LmdbMap_insert_overwrite(m, k, v) == [inserted |-> TRUE, map |-> Put(m, k, v)]

\* txn.put(.., NO_OVERWRITE): KeyExist gives Ok(false)
LmdbMap_insert(m, k, v) ==
    IF k \in DOMAIN m
    THEN [inserted |-> FALSE, map |-> m]
    ELSE [inserted |-> TRUE, map |-> Put(m, k, v)]

\* a remove that reports a removal whether the key was there or not
LmdbMap_remove_always(m, k) ==
    [removed |-> TRUE, map |-> [x \in DOMAIN m \ {k} |-> m[x]]]

LmdbMap_remove(m, k) ==
    IF k \in DOMAIN m
    THEN [removed |-> TRUE, map |-> [x \in DOMAIN m \ {k} |-> m[x]]]
    ELSE [removed |-> FALSE, map |-> m]

\* a clear that leaves the database as it was
LmdbMap_clear_noop(m) == m

LmdbMap_clear(m) == EmptyMap

\* (an extend that writes every pair)
RECURSIVE LmdbMap_extend_overwrite(_, _)
LmdbMap_extend_overwrite(m, pairs) ==
    IF pairs = <<>> THEN m
    ELSE LmdbMap_extend_overwrite(Put(m, Head(pairs)[1], Head(pairs)[2]), Tail(pairs))

\* extend with the pairs of a sequence, in order; insert's result is ignored
RECURSIVE LmdbMap_extend(_, _)
LmdbMap_extend(m, pairs) ==
    IF pairs = <<>> THEN m
    ELSE LmdbMap_extend(LmdbMap_insert(m, Head(pairs)[1], Head(pairs)[2]).map,
                        Tail(pairs))

\* iter(): the (key, value) pairs of the database
LmdbMap_iter(m) == {<<k, m[k]>> : k \in DOMAIN m}

(* ------------------------------- schemas ------------------------------ *)
\* Registered by LmdbRwCache::create before any record is written.
\* SchemaA generates its keys (empty primary_index); SchemaB is keyed by its
\* first field.

SchemaA == [identifier |-> 1, fields |-> <<"UInt">>, primary_index |-> <<>>]

SchemaB == [identifier |-> 2, fields |-> <<"UInt", "Text">>, primary_index |-> <<1>>]

IndexesA == <<[kind |-> "SortedInverted", fields |-> <<1>>]>>

IndexesB == <<[kind |-> "SortedInverted", fields |-> <<2>>],
              [kind |-> "FullText", fields |-> <<2>>]>>

\* schema_db.get_schema(identifier): the schema and its index definitions
get_schema(id) ==
    IF id = SchemaA.identifier
    THEN [schema |-> SchemaA, secondary_indexes |-> IndexesA]
    ELSE [schema |-> SchemaB, secondary_indexes |-> IndexesB]

get_schema_and_indexes_from_record(record) == get_schema(record.schema_id)

\* every (schema identifier, index position) that has a database
IndexIds ==
    {<<SchemaA.identifier, i>> : i \in DOMAIN IndexesA}
        \cup {<<SchemaB.identifier, i>> : i \in DOMAIN IndexesB}

(* ---------------------------- composite keys -------------------------- *)

RECURSIVE ConcatEncoded(_, _)
ConcatEncoded(positions, values) ==
    IF positions = <<>> THEN <<>>
    ELSE encode(values[Head(positions)]).vec \o ConcatEncoded(Tail(positions), values)

\* the concatenation of the encoded fields named by primary_index
get_primary_key(primary_index, values) == ConcatEncoded(primary_index, values)

to_ascii_lowercase(b) == IF b >= 65 /\ b <= 90 THEN b + 32 ELSE b

\* the whitespace-separated tokens of a byte string, lowercased
RECURSIVE Tokens(_, _)
Tokens(s, cur) ==
    IF s = <<>> THEN (IF cur = <<>> THEN {} ELSE {cur})
    ELSE IF Head(s) = 32
         THEN (IF cur = <<>> THEN {} ELSE {cur}) \cup Tokens(Tail(s), <<>>)
         ELSE Tokens(Tail(s), Append(cur, to_ascii_lowercase(Head(s))))

\* the keys one index definition gives a record
IndexKeys(index, record) ==
    IF index.kind = "SortedInverted"
    THEN {ConcatEncoded(index.fields, record.values)}
    ELSE Tokens(record.values[index.fields[1]].v, <<>>)

\* the (key, record id) pairs a record has in index i of its schema
IndexPairs(secondary_indexes, i, record, id) ==
    {<<k, id>> : k \in IndexKeys(secondary_indexes[i], record)}

\* Indexer::build_indexes: insert every (key, id) pair of the record
build_indexes(dbs, record, schema, secondary_indexes, id) ==
    [x \in DOMAIN dbs |->
        IF x[1] = schema.identifier
        THEN dbs[x] \cup IndexPairs(secondary_indexes, x[2], record, id)
        ELSE dbs[x]]

\* Indexer::delete_indexes: remove the same pairs
delete_indexes(dbs, record, schema, secondary_indexes, id) ==
    [x \in DOMAIN dbs |->
        IF x[1] = schema.identifier
        THEN dbs[x] \ IndexPairs(secondary_indexes, x[2], record, id)
        ELSE dbs[x]]

(* ----------------------------- id allocator --------------------------- *)
\* The next free record id lives in a reserved entry of the primary-key
\* database; it is the field "counter" of the state here.

Some(v) == [some |-> TRUE, v |-> v]

NoKey == [some |-> FALSE]

get_or_generate_id(primary_index, counter, key) ==
    IF key.some /\ LmdbMap_get(primary_index, key.v).some
    THEN [id |-> LmdbMap_get(primary_index, key.v).v,
          primary_index |-> primary_index, counter |-> counter]
    ELSE [id |-> counter,
          primary_index |-> IF key.some
                            THEN LmdbMap_insert(primary_index, key.v, counter).map
                            ELSE primary_index,
          counter |-> counter + 1]

(* --------------------------- cache operations ------------------------- *)
\* A database state db is
\*   [records       : record id -> record       (sub-database "records"),
\*    primary_index : primary key -> record id  (sub-database "primary_index"),
\*    counter       : next free record id,
\*    secondary     : (schema id, index) -> set of (key, record id),
\*    checkpoint    : NodeHandle -> OpIdentifier (sub-database "checkpoint")].
\* A record is [schema_id, values, version].  Operations return the state
\* they leave and err = "" on success.

PrimaryKeyNotFound == "PrimaryKeyNotFound"

PrimaryKeyExists == "PrimaryKeyExists"

\* RoCache::get through the read/write cache's shared transaction
get(db, key) ==
    LET id == LmdbMap_get(db.primary_index, key) IN
    IF ~id.some THEN [err |-> PrimaryKeyNotFound]
    ELSE LET record == LmdbMap_get(db.records, id.v) IN
         IF ~record.some THEN [err |-> PrimaryKeyNotFound]
         ELSE [err |-> "", id |-> id.v, record |-> record.v]

\* delete_impl that leaves the index entries of the removed record
delete_impl_keep_indexes(db, key) ==
    LET record == get(db, key) IN
    IF record.err # "" THEN [err |-> record.err, db |-> db]
    ELSE [err |-> "",
          db |-> [db EXCEPT !.records = LmdbMap_remove(db.records, record.id).map],
          schema_id |-> record.record.schema_id,
          version |-> record.record.version]

\* delete_impl that also removes the binding of the key
delete_impl_unbind(db, key) ==
    LET record == get(db, key) IN
    IF record.err # "" THEN [err |-> record.err, db |-> db]
    ELSE LET s == get_schema_and_indexes_from_record(record.record) IN
         [err |-> "",
          db |-> [db EXCEPT
                    !.records = LmdbMap_remove(db.records, record.id).map,
                    !.primary_index = LmdbMap_remove(db.primary_index, key).map,
                    !.secondary = delete_indexes(db.secondary, record.record,
                                    s.schema, s.secondary_indexes, record.id)],
          schema_id |-> s.schema.identifier,
          version |-> record.record.version]

\* delete_impl from the point where it holds the write lock: record is what
\* its get returned
delete_impl_locked(db, record) ==
    LET s == get_schema_and_indexes_from_record(record.record)
        removed == LmdbMap_remove(db.records, record.id)
    IN  IF ~removed.removed
        THEN [err |-> Panic, db |-> db]
        ELSE [err |-> "",
              db |-> [db EXCEPT
                        !.records = removed.map,
                        !.secondary = delete_indexes(db.secondary, record.record,
                                        s.schema, s.secondary_indexes, record.id)],
              schema_id |-> s.schema.identifier,
              version |-> record.record.version]

delete_impl(db, key) ==
    LET record == get(db, key) IN
    IF record.err # "" THEN [err |-> record.err, db |-> db]
    ELSE delete_impl_locked(db, record)

\* insert_impl that asks for a generated id whatever the schema
insert_impl_no_key(db, record, schema_id) ==
    LET s == get_schema(schema_id)
        alloc == get_or_generate_id(db.primary_index, db.counter, NoKey)
    IN  [err |-> "", id |-> alloc.id,
         db |-> [db EXCEPT
                   !.counter = alloc.counter,
                   !.records = LmdbMap_insert(db.records, alloc.id, record).map,
                   !.secondary = build_indexes(db.secondary, record, s.schema,
                                               s.secondary_indexes, alloc.id)]]

\* insert_impl that asks for a bound id whatever the schema's primary_index
insert_impl_always_keyed(db, record, schema_id) ==
    LET s == get_schema(schema_id)
        alloc == get_or_generate_id(db.primary_index, db.counter,
                    Some(get_primary_key(s.schema.primary_index, record.values)))
        allocated == [db EXCEPT !.primary_index = alloc.primary_index,
                                !.counter = alloc.counter]
        inserted == LmdbMap_insert(db.records, alloc.id, record)
    IN  IF ~inserted.inserted
        THEN [err |-> PrimaryKeyExists, db |-> allocated]
        ELSE [err |-> "", id |-> alloc.id,
              db |-> [allocated EXCEPT
                        !.records = inserted.map,
                        !.secondary = build_indexes(db.secondary, record, s.schema,
                                                    s.secondary_indexes, alloc.id)]]

\* insert_impl that builds the primary key from every field of the record
insert_impl_key_all_fields(db, record, schema_id) ==
    LET s == get_schema(schema_id)
        alloc == IF s.schema.primary_index = <<>>
                 THEN get_or_generate_id(db.primary_index, db.counter, NoKey)
                 ELSE get_or_generate_id(db.primary_index, db.counter,
                        Some(get_primary_key([i \in DOMAIN record.values |-> i],
                                             record.values)))
        allocated == [db EXCEPT !.primary_index = alloc.primary_index,
                                !.counter = alloc.counter]
        inserted == LmdbMap_insert(db.records, alloc.id, record)
    IN  IF ~inserted.inserted
        THEN [err |-> PrimaryKeyExists, db |-> allocated]
        ELSE [err |-> "", id |-> alloc.id,
              db |-> [allocated EXCEPT
                        !.records = inserted.map,
                        !.secondary = build_indexes(db.secondary, record, s.schema,
                                                    s.secondary_indexes, alloc.id)]]

\* insert_impl that stores the record and builds no index entry
insert_impl_skip_indexes(db, record, schema_id) ==
    LET s == get_schema(schema_id)
        alloc == IF s.schema.primary_index = <<>>
                 THEN get_or_generate_id(db.primary_index, db.counter, NoKey)
                 ELSE get_or_generate_id(db.primary_index, db.counter,
                        Some(get_primary_key(s.schema.primary_index, record.values)))
        allocated == [db EXCEPT !.primary_index = alloc.primary_index,
                                !.counter = alloc.counter]
        inserted == LmdbMap_insert(db.records, alloc.id, record)
    IN  IF ~inserted.inserted
        THEN [err |-> PrimaryKeyExists, db |-> allocated]
        ELSE [err |-> "", id |-> alloc.id,
              db |-> [allocated EXCEPT !.records = inserted.map]]

insert_impl(db, record, schema_id) ==
    LET s == get_schema(schema_id)
        alloc == IF s.schema.primary_index = <<>>
                 THEN get_or_generate_id(db.primary_index, db.counter, NoKey)
                 ELSE get_or_generate_id(db.primary_index, db.counter,
                        Some(get_primary_key(s.schema.primary_index, record.values)))
        allocated == [db EXCEPT !.primary_index = alloc.primary_index,
                                !.counter = alloc.counter]
        inserted == LmdbMap_insert(db.records, alloc.id, record)
    IN  IF ~inserted.inserted
        THEN [err |-> PrimaryKeyExists, db |-> allocated]
        ELSE [err |-> "", id |-> alloc.id,
              db |-> [allocated EXCEPT
                        !.records = inserted.map,
                        !.secondary = build_indexes(db.secondary, record, s.schema,
                                                    s.secondary_indexes, alloc.id)]]

\* RwCache::insert; version is what the call leaves in the caller's record
insert(db, record) ==
    LET s == get_schema_and_indexes_from_record(record)
        versioned == [record EXCEPT !.version = INITIAL_RECORD_VERSION]
        r == insert_impl(db, versioned, s.schema.identifier)
    IN  [err |-> r.err, db |-> r.db, version |-> versioned.version,
         ret |-> IF r.err = "" THEN r.id ELSE 0]

\* RwCache::delete
delete(db, key) ==
    LET r == delete_impl(db, key) IN
    [err |-> r.err, db |-> r.db, ret |-> IF r.err = "" THEN r.version ELSE None]

\* old_version + 1 on a u32: a checked build panics on overflow, an
\* unchecked build wraps
add_one_u32(v, checked) ==
    IF v = U32_MAX
    THEN [panic |-> checked, v |-> U32(0, 0)]
    ELSE [panic |-> FALSE, v |-> Succ(v)]

\* update that stamps the caller's record, as insert does, before it looks
\* the key up
update_version_first(db, key, record, checked) ==
    LET d == delete_impl(db, key) IN
    IF d.err # ""
    THEN [err |-> d.err, db |-> d.db, version |-> INITIAL_RECORD_VERSION, ret |-> None]
    ELSE LET sum == add_one_u32(d.version, checked) IN
         IF sum.panic
         THEN [err |-> Panic, db |-> d.db, version |-> INITIAL_RECORD_VERSION,
               ret |-> None]
         ELSE LET versioned == [record EXCEPT !.version = sum.v]
                  i == insert_impl(d.db, versioned, d.schema_id)
              IN  [err |-> i.err, db |-> i.db, version |-> versioned.version,
                   ret |-> IF i.err = "" THEN d.version ELSE None]

\* RwCache::update
update(db, key, record, checked) ==
    LET d == delete_impl(db, key) IN
    IF d.err # ""
    THEN [err |-> d.err, db |-> d.db, version |-> record.version, ret |-> None]
    ELSE LET sum == add_one_u32(d.version, checked) IN
         IF sum.panic
         THEN [err |-> Panic, db |-> d.db, version |-> record.version, ret |-> None]
         ELSE LET versioned == [record EXCEPT !.version = sum.v]
                  i == insert_impl(d.db, versioned, d.schema_id)
              IN  [err |-> i.err, db |-> i.db, version |-> versioned.version,
                   ret |-> IF i.err = "" THEN d.version ELSE None]

\* the entries of a HashMap in the order its iterator yields them (any order;
\* the keys of a map are distinct)
Entries(map) ==
    CHOOSE s \in [1..Cardinality(DOMAIN map) -> LmdbMap_iter(map)] :
        {s[i] : i \in DOMAIN s} = LmdbMap_iter(map)

\* LmdbExclusiveTransaction::commit_and_renew: everything the write
\* transaction holds becomes the committed snapshot, and the next write
\* transaction starts from it
commit_and_renew(db) == [txn |-> db, env |-> db]

\* commit that commits the transaction before it writes the checkpoint
commit_before_checkpoint(db, checkpoint) ==
    LET committed == commit_and_renew(db)
        cleared == LmdbMap_clear(committed.txn.checkpoint)
        extended == LmdbMap_extend(cleared, Entries(checkpoint))
    IN  [txn |-> [committed.txn EXCEPT !.checkpoint = extended],
         env |-> committed.env]

\* commit that makes the checkpoint store durable and nothing else
commit_checkpoint_only(db, checkpoint) ==
    LET cleared == LmdbMap_clear(db.checkpoint)
        extended == LmdbMap_extend(cleared, Entries(checkpoint))
    IN  [txn |-> [db EXCEPT !.checkpoint = extended],
         env |-> [records |-> EmptyMap, primary_index |-> EmptyMap, counter |-> 1,
                  secondary |-> [x \in DOMAIN db.secondary |-> {}],
                  checkpoint |-> extended]]

\* RwCache::commit: clear, extend, commit_and_renew under one write lock
commit(db, checkpoint) ==
    LET cleared == LmdbMap_clear(db.checkpoint)
        extended == LmdbMap_extend(cleared, Entries(checkpoint))
    IN  commit_and_renew([db EXCEPT !.checkpoint = extended])

\* RwCache::get_checkpoint: collect iter() into a map
get_checkpoint(db) ==
    [k \in {e[1] : e \in LmdbMap_iter(db.checkpoint)} |->
        (CHOOSE e \in LmdbMap_iter(db.checkpoint) : e[1] = k)[2]]

(* --------------------------------- reads ------------------------------ *)
\* count and query with the plans that need no intersection: no filter (the
\* records of the schema), EQ on a SortedInverted index, Contains on a
\* FullText index.  A query expression is [filter, index, key].

get_schema_from_name(name) == IF name = "A" THEN get_schema(1) ELSE get_schema(2)

NoFilter == [filter |-> "none", index |-> 0, key |-> <<>>]

\* the ids a plan yields
ScanIds(db, schema_id, expr) ==
    IF expr.filter = "none"
    THEN {id \in DOMAIN db.records : db.records[id].schema_id = schema_id}
    ELSE {p[2] : p \in {q \in db.secondary[<<schema_id, expr.index>>] :
                            q[1] = expr.key}}

\* ids in record-id order
RECURSIVE IdOrder(_)
IdOrder(ids) ==
    IF ids = {} THEN <<>>
    ELSE LET least == CHOOSE i \in ids : \A j \in ids : i <= j
         IN  <<least>> \o IdOrder(ids \ {least})

\* RoCache::query: the (record id, record) pairs of the surviving ids
query(db, schema_name, expr) ==
    LET ids == IdOrder(ScanIds(db, get_schema_from_name(schema_name).schema.identifier,
                               expr))
    IN  [i \in DOMAIN ids |-> [id |-> ids[i], record |-> db.records[ids[i]]]]

\* RoCache::count
count(db, schema_name, expr) ==
    Cardinality(ScanIds(db, get_schema_from_name(schema_name).schema.identifier, expr))

\* the primary key of a record under its own schema; <<>> when the schema
\* has no primary_index (the id is then asked for with None)
KeyOf(record) ==
    LET primary_index == get_schema_and_indexes_from_record(record).schema.primary_index
    IN  IF primary_index = <<>> THEN <<>>
        ELSE get_primary_key(primary_index, record.values)

(* -------------------------------- inputs ------------------------------ *)

\* versions the caller's record may carry into insert and update
CallerVersions == {None, U32(0, 7)}

KeysB == {42, 99}

\* "a" and "A b"
TextsB == {<<97>>, <<65, 32, 98>>}

RecordsA ==
    {[schema_id |-> SchemaA.identifier, values |-> <<UInt(7)>>, version |-> v] :
        v \in CallerVersions}

RecordsB ==
    {[schema_id |-> SchemaB.identifier, values |-> <<UInt(k), Text(t)>>, version |-> v] :
        k \in KeysB, t \in TextsB, v \in CallerVersions}

\* primary keys passed to get, update and delete
Keys == {encode(UInt(k)).vec : k \in KeysB}

\* OpIdentifier (txid, seq)
op1 == <<1, 0>>

op2 == <<1, 1>>

op3 == <<2, 0>>

\* SourceStates passed to commit
Checkpoints ==
    {EmptyMap,
     [n \in {"nA", "nB"} |-> IF n = "nA" THEN op1 ELSE op2],
     [n \in {"nA"} |-> op3]}

\* (schema name, query expression) passed to count and query: everything,
\* text EQ "a", text Contains "b"
Queries ==
    {<<"A", NoFilter>>, <<"B", NoFilter>>,
     <<"B", [filter |-> "EQ", index |-> 1, key |-> encode(Text(<<97>>)).vec]>>,
     <<"B", [filter |-> "Contains", index |-> 2, key |-> <<98>>]>>}

\* what get, count and query return on the contents db, for every input
ReadResults(db) ==
    [get |-> [k \in Keys |-> get(db, k)],
     count |-> [q \in Queries |-> count(db, q[1], q[2])],
     query |-> [q \in Queries |-> query(db, q[1], q[2])]]

(* --------------------------------- state ------------------------------ *)

\* a directory right after LmdbRwCache::create registered the schemas
EmptyDb ==
    [records |-> EmptyMap, primary_index |-> EmptyMap, counter |-> 1,
     secondary |-> [x \in IndexIds |-> {}], checkpoint |-> EmptyMap]

\* a directory an earlier run left: one SchemaB record that has been updated
\* until its version is the largest a u32 holds
HotRecord ==
    [schema_id |-> SchemaB.identifier, values |-> <<UInt(42), Text(<<97>>)>>,
     version |-> U32_MAX]

UsedDb ==
    [records |-> Put(EmptyMap, 1, HotRecord),
     primary_index |-> Put(EmptyMap, encode(UInt(42)).vec, 1),
     counter |-> 2,
     secondary |-> build_indexes(EmptyDb.secondary, HotRecord, SchemaB, IndexesB, 1),
     checkpoint |-> EmptyMap]

\* LmdbMap::count of every sub-database, and the next free record id
Counts(db) ==
    [counter |-> db.counter,
     records |-> LmdbMap_count(db.records),
     primary_index |-> LmdbMap_count(db.primary_index),
     secondary |-> [x \in IndexIds |-> Cardinality(db.secondary[x])],
     checkpoint |-> LmdbMap_count(db.checkpoint)]

NoRecord == [schema_id |-> 0, values |-> <<>>, version |-> None]

NoCall ==
    [op |-> "open", key |-> <<>>, record |-> NoRecord, version |-> None,
     err |-> "", ret |-> 0, got |-> NoRecord, checkpoint |-> EmptyMap,
     before |-> Counts(EmptyDb), query |-> <<>>, rows |-> <<>>, results |-> <<>>]

Call(op, db) == [NoCall EXCEPT !.op = op, !.before = Counts(db)]

\* the (primary key, record id) pairs of the records a directory was left
\* with
IssuedIn(db) == {<<KeyOf(db.records[id]), id>> : id \in DOMAIN db.records}

\* the RwLock of SharedTransaction with no guard alive
Unlocked == [writers |-> {}, readers |-> {}]

\* a panic ends the process: nothing runs until the cache is opened again
Running == last.err # Panic /\ ops < MaxOps

\* a read transaction pinned to the shared write transaction
begin_txn_shared == txn

\* LmdbRoCache::begin_txn: env.begin_ro_txn(), the committed snapshot
LmdbRoCache_begin_txn == env

\* a read transaction of the environment in place of the shared one
begin_txn_committed == env

\* LmdbRwCache::begin_txn: self.txn.read(), the shared write transaction
LmdbRwCache_begin_txn == txn

Init ==
    /\ txn \in {EmptyDb, UsedDb}
    /\ env = txn
    /\ last = NoCall
    /\ overflow_checks \in BOOLEAN
    /\ ops = 0
    /\ issued = IssuedIn(txn)
    /\ lock = Unlocked
    /\ threads = <<>>
    /\ dir = {}
    /\ lmdb_map = EmptyMap

(* -------------------------------- actions ----------------------------- *)

Insert ==
    /\ Running
    /\ \E record \in RecordsA \cup RecordsB :
         LET r == insert(txn, record) IN
         /\ txn' = r.db
         /\ last' = [Call("insert", txn) EXCEPT !.record = record,
                        !.version = r.version, !.err = r.err, !.ret = r.ret]
         /\ issued' = IF r.err = ""
                       THEN issued \cup {<<KeyOf(record), r.ret>>}
                       ELSE issued
    /\ ops' = ops + 1
    /\ UNCHANGED <<env, overflow_checks>>
    /\ UNCHANGED aside

Delete ==
    /\ Running
    /\ \E key \in Keys :
         LET r == delete(txn, key) IN
         /\ txn' = r.db
         /\ last' = [Call("delete", txn) EXCEPT !.key = key, !.err = r.err,
                        !.ret = r.ret]
    /\ ops' = ops + 1
    /\ UNCHANGED <<env, overflow_checks, issued>>
    /\ UNCHANGED aside

Update ==
    /\ Running
    /\ \E key \in Keys, record \in RecordsB :
         LET r == update(txn, key, record, overflow_checks) IN
         /\ txn' = r.db
         /\ last' = [Call("update", txn) EXCEPT !.key = key, !.record = record,
                        !.version = r.version, !.err = r.err, !.ret = r.ret]
         /\ issued' = IF r.err = ""
                       THEN issued \cup {<<KeyOf(record), get(r.db, KeyOf(record)).id>>}
                       ELSE issued
    /\ ops' = ops + 1
    /\ UNCHANGED <<env, overflow_checks>>
    /\ UNCHANGED aside

Commit ==
    /\ Running
    /\ \E checkpoint \in Checkpoints :
         LET r == commit(txn, checkpoint) IN
         /\ txn' = r.txn
         /\ env' = r.env
         /\ last' = [Call("commit", txn) EXCEPT !.checkpoint = checkpoint]
    /\ ops' = ops + 1
    /\ UNCHANGED <<overflow_checks, issued>>
    /\ UNCHANGED aside

GetCheckpoint ==
    /\ Running
    /\ last' = [Call("get_checkpoint", txn) EXCEPT !.checkpoint = get_checkpoint(txn)]
    /\ ops' = ops + 1
    /\ UNCHANGED <<txn, env, overflow_checks, issued>>
    /\ UNCHANGED aside

Get ==
    /\ Running
    /\ \E key \in Keys :
         LET r == get(LmdbRwCache_begin_txn, key) IN
         last' = [Call("get", txn) EXCEPT !.key = key, !.err = r.err,
                     !.ret = IF r.err = "" THEN r.id ELSE 0,
                     !.got = IF r.err = "" THEN r.record ELSE NoRecord]
    /\ ops' = ops + 1
    /\ UNCHANGED <<txn, env, overflow_checks, issued>>
    /\ UNCHANGED aside

\* count and query on the read/write cache
Query ==
    /\ Running
    /\ \E q \in Queries :
         last' = [Call("query", txn) EXCEPT !.query = q,
                     !.ret = count(LmdbRwCache_begin_txn, q[1], q[2]),
                     !.rows = query(LmdbRwCache_begin_txn, q[1], q[2])]
    /\ ops' = ops + 1
    /\ UNCHANGED <<txn, env, overflow_checks, issued>>
    /\ UNCHANGED aside

\* a read-only cache on the same directory calls get, count and query
RoRead ==
    /\ Running
    /\ last' = [Call("ro_read", txn) EXCEPT
                   !.results = ReadResults(LmdbRoCache_begin_txn)]
    /\ ops' = ops + 1
    /\ UNCHANGED <<txn, env, overflow_checks, issued>>
    /\ UNCHANGED aside

\* The process ends (a crash, a panic, a normal exit without commit) and
\* LmdbRwCache::open opens the directory again: the new write transaction
\* starts from the committed snapshot.
Open ==
    /\ ops < MaxOps
    /\ last.op # "open"
    /\ txn' = env
    /\ last' = Call("open", env)
    /\ issued' = {p \in issued : p[2] < env.counter}
    /\ ops' = ops + 1
    /\ UNCHANGED <<env, overflow_checks>>
    /\ UNCHANGED aside

Next ==
    \/ Insert \/ Delete \/ Update \/ Commit \/ GetCheckpoint \/ Get \/ Query
    \/ RoRead \/ Open

Spec == Init /\ [][Next]_vars

(* ------------------------ threads of one process ---------------------- *)
\* Concurrent: the threads of the writing process call the read/write cache
\* at the same time.  Every call is cut where the code takes or drops a guard
\* of the RwLock around the shared write transaction.
\* threads[t] is [pc    : the function the thread is in ("idle" before a
\*                       call, "done" after one, "panicked" when it unwound),
\*               holds : the guard it holds ("", "read", "write"),
\*               op, key, record, checkpoint : the call and its arguments,
\*               got   : what the get of delete_impl returned,
\*               err, ret : what the call returned].

Threads == {"t1", "t2"}

\* records the threads write (the caller's version is overwritten anyway)
ThreadRecords == {r \in RecordsA \cup RecordsB : r.version = None}

Idle ==
    [pc |-> "idle", holds |-> "", op |-> "", key |-> <<>>, record |-> NoRecord,
     checkpoint |-> EmptyMap, got |-> [err |-> ""], err |-> "", ret |-> None]

\* RwLock::write / RwLock::read: when the guard can be given, and the lock
\* with it given to thread t
write_ready(l) == l.writers = {} /\ l.readers = {}

read_ready(l) == l.writers = {}

write(l, t) == [l EXCEPT !.writers = @ \cup {t}]

read(l, t) == [l EXCEPT !.readers = @ \cup {t}]

\* the guard of thread t goes out of scope
drop(l, t) == [l EXCEPT !.writers = @ \ {t}, !.readers = @ \ {t}]

\* thread u has finished the delete_impl of an update and not yet its
\* insert_impl
MidUpdate(u) == threads[u].op = "update" /\ threads[u].pc = "insert_impl"

NoCommit == [op |-> "open", by |-> "", torn |-> {}]

\* a directory an earlier run left: one SchemaB record, inserted and
\* committed
WarmRecord ==
    [schema_id |-> SchemaB.identifier, values |-> <<UInt(42), Text(<<97>>)>>,
     version |-> INITIAL_RECORD_VERSION]

WarmDb ==
    [records |-> Put(EmptyMap, 1, WarmRecord),
     primary_index |-> Put(EmptyMap, encode(UInt(42)).vec, 1),
     counter |-> 2,
     secondary |-> build_indexes(EmptyDb.secondary, WarmRecord, SchemaB, IndexesB, 1),
     checkpoint |-> EmptyMap]

InitConcurrent ==
    /\ txn \in {EmptyDb, WarmDb}
    /\ env = txn
    /\ last = NoCommit
    /\ overflow_checks \in BOOLEAN
    /\ ops = 0
    /\ issued = {}
    /\ lock = Unlocked
    /\ threads = [t \in Threads |-> Idle]
    /\ dir = {}
    /\ lmdb_map = EmptyMap

\* what no step of a thread changes
fixed == <<overflow_checks, issued, dir, lmdb_map>>

CanCall(t) == threads[t].pc \in {"idle", "done"} /\ ops < MaxCalls

\* insert up to the call of insert_impl
CallInsert(t) ==
    /\ CanCall(t)
    /\ \E record \in ThreadRecords :
         threads' = [threads EXCEPT ![t] =
             [Idle EXCEPT !.pc = "insert_impl", !.op = "insert",
                          !.record = [record EXCEPT !.version = INITIAL_RECORD_VERSION]]]
    /\ ops' = ops + 1
    /\ UNCHANGED <<txn, env, last, lock>>
    /\ UNCHANGED fixed

\* delete up to the get of delete_impl
CallDelete(t) ==
    /\ CanCall(t)
    /\ \E key \in Keys :
         threads' = [threads EXCEPT ![t] =
             [Idle EXCEPT !.pc = "get", !.op = "delete", !.key = key]]
    /\ ops' = ops + 1
    /\ UNCHANGED <<txn, env, last, lock>>
    /\ UNCHANGED fixed

\* update up to the get of delete_impl
CallUpdate(t) ==
    /\ CanCall(t)
    /\ \E key \in Keys, record \in ThreadRecords :
         /\ record.schema_id = SchemaB.identifier
         /\ threads' = [threads EXCEPT ![t] =
                [Idle EXCEPT !.pc = "get", !.op = "update", !.key = key,
                             !.record = record]]
    /\ ops' = ops + 1
    /\ UNCHANGED <<txn, env, last, lock>>
    /\ UNCHANGED fixed

CallCommit(t) ==
    /\ CanCall(t)
    /\ \E checkpoint \in Checkpoints :
         threads' = [threads EXCEPT ![t] =
             [Idle EXCEPT !.pc = "commit", !.op = "commit", !.checkpoint = checkpoint]]
    /\ ops' = ops + 1
    /\ UNCHANGED <<txn, env, last, lock>>
    /\ UNCHANGED fixed

CallGet(t) ==
    /\ CanCall(t)
    /\ \E key \in Keys :
         threads' = [threads EXCEPT ![t] =
             [Idle EXCEPT !.pc = "get", !.op = "get", !.key = key]]
    /\ ops' = ops + 1
    /\ UNCHANGED <<txn, env, last, lock>>
    /\ UNCHANGED fixed

\* begin_txn of the read/write cache: self.txn.read()
ReadLock(t) ==
    /\ threads[t].pc = "get"
    /\ threads[t].holds = ""
    /\ read_ready(lock)
    /\ lock' = read(lock, t)
    /\ threads' = [threads EXCEPT ![t].holds = "read"]
    /\ UNCHANGED <<txn, env, last, ops>>
    /\ UNCHANGED fixed

\* (a get whose read guard lives on into delete_impl)
GetLocked_keeps_guard(t) ==
    /\ threads[t].pc = "get"
    /\ threads[t].holds = "read"
    /\ LET r == get(txn, threads[t].key) IN
       /\ threads' = [threads EXCEPT ![t] =
              IF threads[t].op = "get" \/ r.err # ""
              THEN [@ EXCEPT !.pc = "done", !.holds = "", !.got = r, !.err = r.err]
              ELSE [@ EXCEPT !.pc = "delete_impl", !.got = r]]
       /\ lock' = IF threads[t].op = "get" \/ r.err # "" THEN drop(lock, t) ELSE lock
    /\ UNCHANGED <<txn, env, last, ops>>
    /\ UNCHANGED fixed

\* RoCache::get under the read guard; the guard is dropped when get returns.
\* A get made by delete_impl hands its result to delete_impl.
GetLocked(t) ==
    /\ threads[t].pc = "get"
    /\ threads[t].holds = "read"
    /\ LET r == get(txn, threads[t].key) IN
       threads' = [threads EXCEPT ![t] =
           IF threads[t].op = "get" \/ r.err # ""
           THEN [@ EXCEPT !.pc = "done", !.holds = "", !.got = r, !.err = r.err]
           ELSE [@ EXCEPT !.pc = "delete_impl", !.holds = "", !.got = r]]
    /\ lock' = drop(lock, t)
    /\ UNCHANGED <<txn, env, last, ops>>
    /\ UNCHANGED fixed

\* a write lock that is given whoever holds a guard
WriteLock_no_wait(t) ==
    /\ threads[t].pc \in {"delete_impl", "insert_impl", "commit"}
    /\ threads[t].holds # "write"
    /\ lock' = write(lock, t)
    /\ threads' = [threads EXCEPT ![t].holds = "write"]
    /\ UNCHANGED <<txn, env, last, ops>>
    /\ UNCHANGED fixed

\* let mut txn = self.txn.write() in delete_impl, insert_impl and commit
WriteLock(t) ==
    /\ threads[t].pc \in {"delete_impl", "insert_impl", "commit"}
    /\ threads[t].holds # "write"
    /\ write_ready(lock)
    /\ lock' = write(lock, t)
    /\ threads' = [threads EXCEPT ![t].holds = "write"]
    /\ UNCHANGED <<txn, env, last, ops>>
    /\ UNCHANGED fixed

\* delete_impl under the write guard.  delete returns the version; update
\* goes on, without a guard, to old_version + 1 and to insert_impl.
DeleteImplLocked(t) ==
    /\ threads[t].pc = "delete_impl"
    /\ threads[t].holds = "write"
    /\ LET d == delete_impl_locked(txn, threads[t].got) IN
       /\ txn' = d.db
       /\ threads' = [threads EXCEPT ![t] =
              IF d.err = Panic
              THEN [@ EXCEPT !.pc = "panicked", !.holds = "", !.err = Panic]
              ELSE IF threads[t].op = "delete"
              THEN [@ EXCEPT !.pc = "done", !.holds = "", !.ret = d.version]
              ELSE LET sum == add_one_u32(d.version, overflow_checks) IN
                   IF sum.panic
                   THEN [@ EXCEPT !.pc = "panicked", !.holds = "", !.err = Panic]
                   ELSE [@ EXCEPT !.pc = "insert_impl", !.holds = "",
                                  !.ret = d.version, !.record.version = sum.v]]
    /\ lock' = drop(lock, t)
    /\ UNCHANGED <<env, last, ops>>
    /\ UNCHANGED fixed

\* insert_impl under the write guard, for insert and for update; ret is
\* <<id>> for the id an insert returns
InsertImplLocked(t) ==
    /\ threads[t].pc = "insert_impl"
    /\ threads[t].holds = "write"
    /\ LET schema_id == IF threads[t].op = "update"
                        THEN threads[t].got.record.schema_id
                        ELSE threads[t].record.schema_id
           i == insert_impl(txn, threads[t].record, schema_id)
       IN  /\ txn' = i.db
           /\ threads' = [threads EXCEPT ![t] =
                  [@ EXCEPT !.pc = "done", !.holds = "", !.err = i.err,
                            !.ret = IF i.err # "" THEN None
                                    ELSE IF threads[t].op = "insert" THEN <<i.id>>
                                    ELSE @]]
    /\ lock' = drop(lock, t)
    /\ UNCHANGED <<env, last, ops>>
    /\ UNCHANGED fixed

\* commit under the write guard; last notes the updates that were between
\* their two lock sections when the transaction was committed
CommitLocked(t) ==
    /\ threads[t].pc = "commit"
    /\ threads[t].holds = "write"
    /\ LET r == commit(txn, threads[t].checkpoint) IN
       /\ txn' = r.txn
       /\ env' = r.env
    /\ last' = [op |-> "commit", by |-> t, torn |-> {u \in Threads : MidUpdate(u)}]
    /\ threads' = [threads EXCEPT ![t] = [@ EXCEPT !.pc = "done", !.holds = ""]]
    /\ lock' = drop(lock, t)
    /\ UNCHANGED ops
    /\ UNCHANGED fixed

NextConcurrent ==
    \E t \in Threads :
        \/ CallInsert(t) \/ CallDelete(t) \/ CallUpdate(t) \/ CallCommit(t)
        \/ CallGet(t)
        \/ ReadLock(t) \/ GetLocked(t) \/ WriteLock(t)
        \/ DeleteImplLocked(t) \/ InsertImplLocked(t) \/ CommitLocked(t)

Concurrent == InitConcurrent /\ [][NextConcurrent]_vars

\* Threads are scheduled: a thread that can take a step under its guard
\* takes it, and the lock is fair: a thread that asks for a guard again and
\* again ready to be given gets it.  (Nothing makes a thread call.)  Each
\* of these steps takes or drops a guard, so it changes lock.
Scheduled ==
    \A t \in Threads :
        /\ SF_lock(ReadLock(t))
        /\ SF_lock(WriteLock(t))
        /\ WF_lock(GetLocked(t))
        /\ WF_lock(DeleteImplLocked(t))
        /\ WF_lock(InsertImplLocked(t))
        /\ WF_lock(CommitLocked(t))

\* the calls on one key: every call is about the record of WarmDb, and
\* commits carry an empty checkpoint
OneKey ==
    \A t \in Threads :
        /\ threads[t].key \in {<<>>, KeyOf(WarmRecord)}
        /\ threads[t].record.values \in {<<>>, WarmRecord.values}
        /\ threads[t].checkpoint = EmptyMap

InitFair == InitConcurrent /\ txn = WarmDb /\ overflow_checks

NextFair == NextConcurrent /\ OneKey'

ConcurrentFair == InitFair /\ [][NextFair]_vars /\ Scheduled

(* ------------------------- opening a directory ----------------------- *)
\* Opening: caches are opened on a directory that holds any subset of the
\* sub-databases (a directory another tool wrote, or one on which an earlier
\* open was interrupted); no schema is registered.  dir is the set of
\* sub-databases the directory holds.

DatabaseNotFound == "DatabaseNotFound"

Mandatory == {"records", "primary_index", "schemas", "schemas_by_name", "checkpoint"}

\* Environment::create_database(name, flags): with flags it creates what is
\* missing, without it fails on what is missing
create_database(d, name, create_flags) ==
    IF name \in d THEN [err |-> "", dir |-> d]
    ELSE IF create_flags THEN [err |-> "", dir |-> d \cup {name}]
    ELSE [err |-> DatabaseNotFound, dir |-> d]

\* new_from_env that passes create flags whatever it is asked
new_from_env_create(d, name, create_if_not_exist) == create_database(d, name, TRUE)

\* LmdbMap::new_from_env
new_from_env(d, name, create_if_not_exist) ==
    create_database(d, name, create_if_not_exist)

\* SchemaDatabase::new: the two schema sub-databases
SchemaDatabase_new(d, create_if_not_exist) ==
    LET schemas == create_database(d, "schemas", create_if_not_exist) IN
    IF schemas.err # "" THEN schemas
    ELSE create_database(schemas.dir, "schemas_by_name", create_if_not_exist)

\* LmdbCacheCommon::new: records, primary_index, the schema database; each ?
\* returns the first error
LmdbCacheCommon_new(d, create_db_if_not_exist) ==
    LET record_id_to_record == new_from_env(d, "records", create_db_if_not_exist) IN
    IF record_id_to_record.err # "" THEN record_id_to_record
    ELSE LET primary_key_to_record_id ==
                 new_from_env(record_id_to_record.dir, "primary_index",
                              create_db_if_not_exist)
         IN  IF primary_key_to_record_id.err # "" THEN primary_key_to_record_id
             ELSE SchemaDatabase_new(primary_key_to_record_id.dir,
                                     create_db_if_not_exist)

\* LmdbRoCache::new
LmdbRoCache_new(d) == LmdbCacheCommon_new(d, FALSE)

\* LmdbRwCache::open
LmdbRwCache_open(d) ==
    LET common == LmdbCacheCommon_new(d, TRUE) IN
    IF common.err # "" THEN common
    ELSE new_from_env(common.dir, "checkpoint", TRUE)

NoOpen == [op |-> "", err |-> "", before |-> {}]

InitOpening ==
    /\ dir \in SUBSET Mandatory
    /\ last = NoOpen
    /\ ops = 0
    /\ txn = EmptyDb
    /\ env = EmptyDb
    /\ overflow_checks = TRUE
    /\ issued = {}
    /\ lock = Unlocked
    /\ threads = <<>>
    /\ lmdb_map = EmptyMap

\* what opening a cache leaves alone
unopened == <<txn, env, overflow_checks, issued, lock, threads, lmdb_map>>

RoOpen ==
    /\ ops < MaxOpens
    /\ LET r == LmdbRoCache_new(dir) IN
       /\ dir' = r.dir
       /\ last' = [op |-> "ro_open", err |-> r.err, before |-> dir]
    /\ ops' = ops + 1
    /\ UNCHANGED unopened

RwOpen ==
    /\ ops < MaxOpens
    /\ LET r == LmdbRwCache_open(dir) IN
       /\ dir' = r.dir
       /\ last' = [op |-> "rw_open", err |-> r.err, before |-> dir]
    /\ ops' = ops + 1
    /\ UNCHANGED unopened

NextOpening == RoOpen \/ RwOpen

Opening == InitOpening /\ [][NextOpening]_vars

(* --------------------------- one map, one txn ------------------------- *)
\* MapOps: insert, remove, clear, get and count on one LmdbMap<[u8], [u8]>
\* inside one write transaction, as in tests::test_lmdb_map.  last.present
\* is the set of keys the calls so far should have left in the map.

MapKeys == {<<1>>, <<2>>}

MapValues == {<<2>>, <<3>>}

\* what an iterator handed to extend yields
MapPairs == UNION {[1..n -> MapKeys \X MapValues] : n \in 0..MaxPairs}

NoMapCall ==
    [op |-> "new_from_txn", key |-> <<>>, value |-> <<>>, ret |-> FALSE,
     got |-> [some |-> FALSE], count |-> 0, before |-> EmptyMap, present |-> {},
     pairs |-> <<>>]

MapCall(op) == [NoMapCall EXCEPT !.op = op, !.before = lmdb_map, !.present = last.present]

InitMapOps ==
    /\ lmdb_map = EmptyMap
    /\ last = NoMapCall
    /\ ops = 0
    /\ txn = EmptyDb
    /\ env = EmptyDb
    /\ overflow_checks = TRUE
    /\ issued = {}
    /\ lock = Unlocked
    /\ threads = <<>>
    /\ dir = {}

\* what a call on the map leaves alone
unmapped == <<txn, env, overflow_checks, issued, lock, threads, dir>>

MapInsert ==
    /\ ops < MaxMapOps
    /\ \E k \in MapKeys, v \in MapValues :
         LET r == LmdbMap_insert(lmdb_map, k, v) IN
         /\ lmdb_map' = r.map
         /\ last' = [MapCall("insert") EXCEPT !.key = k, !.value = v,
                        !.ret = r.inserted, !.present = @ \cup {k}]
    /\ ops' = ops + 1
    /\ UNCHANGED unmapped

MapRemove ==
    /\ ops < MaxMapOps
    /\ \E k \in MapKeys :
         LET r == LmdbMap_remove(lmdb_map, k) IN
         /\ lmdb_map' = r.map
         /\ last' = [MapCall("remove") EXCEPT !.key = k, !.ret = r.removed,
                        !.present = @ \ {k}]
    /\ ops' = ops + 1
    /\ UNCHANGED unmapped

MapClear ==
    /\ ops < MaxMapOps
    /\ lmdb_map' = LmdbMap_clear(lmdb_map)
    /\ last' = [MapCall("clear") EXCEPT !.present = {}]
    /\ ops' = ops + 1
    /\ UNCHANGED unmapped

MapGet ==
    /\ ops < MaxMapOps
    /\ \E k \in MapKeys :
         last' = [MapCall("get") EXCEPT !.key = k, !.got = LmdbMap_get(lmdb_map, k)]
    /\ ops' = ops + 1
    /\ UNCHANGED lmdb_map
    /\ UNCHANGED unmapped

MapCount ==
    /\ ops < MaxMapOps
    /\ last' = [MapCall("count") EXCEPT !.count = LmdbMap_count(lmdb_map)]
    /\ ops' = ops + 1
    /\ UNCHANGED lmdb_map
    /\ UNCHANGED unmapped

\* extend returns Ok(()): insert fails only on a storage error
MapExtend ==
    /\ ops < MaxMapOps
    /\ \E pairs \in MapPairs :
         /\ lmdb_map' = LmdbMap_extend(lmdb_map, pairs)
         /\ last' = [MapCall("extend") EXCEPT !.pairs = pairs, !.ret = TRUE,
                        !.present = @ \cup {pairs[i][1] : i \in DOMAIN pairs}]
    /\ ops' = ops + 1
    /\ UNCHANGED unmapped

NextMapOps == MapInsert \/ MapRemove \/ MapClear \/ MapGet \/ MapCount \/ MapExtend

MapOps == InitMapOps /\ [][NextMapOps]_vars

(* --------------------------- the codec alone --------------------------- *)
\* One Field, or one byte buffer, is given; encode and decode are applied
\* to it.  last holds what was given and what the calls returned.

\* 0.0, 1.0 and a NaN
FloatBits == {<<0, 0, 0, 0>>, <<16368, 0, 0, 0>>, <<32760, 0, 0, 0>>}

Bytes == {0, 1, 49, 255}

BytesUpTo(n) == UNION {[1..k -> Bytes] : k \in 0..n}

Strings == {s \in BytesUpTo(MaxLen) : Utf8Valid(s)} \cup {<<195, 169>>}

\* field_test_cases, and around them: negative numbers, a timestamp shown
\* in another offset, one with microseconds, the first and last days of the
\* four-digit years and dates beyond them
Fields ==
    {Field_Int(n) : n \in {-1, 0, 1}}
        \cup {UInt(n) : n \in {0, 1, 42}}
        \cup {Float(b) : b \in FloatBits}
        \cup {Boolean(b) : b \in BOOLEAN}
        \cup {String(s) : s \in Strings}
        \cup {Text(s) : s \in Strings}
        \cup {Binary(b) : b \in BytesUpTo(MaxLen)}
        \cup {Bson(b) : b \in BytesUpTo(MaxLen)}
        \cup {Decimal(0, 0), Decimal(1, 0), Decimal(-15, 1)}
        \cup {Timestamp(I64(0), 0, 0), Timestamp(I64(1), 0, 0), Timestamp(I64(-1), 0, 0),
              Timestamp(I64(1), 0, 3600), Timestamp(I64(1), 1000, 0)}
        \cup {Date(1970, 1, 1), Date(2020, 1, 1), Date(2020, 2, 29), Date(0, 1, 1),
              Date(9999, 12, 31), Date(10000, 1, 1), Date(-1, 12, 31),
              Date(MAX_YEAR, 12, 31)}
        \cup {Null}

\* payloads no encode produces: seven and nine bytes, i64::MAX, a month 13,
\* a date without its zeros, a date after a blank, flags of a Decimal with
\* unused bits set
Malformed ==
    {[i \in 1..7 |-> 0], [i \in 1..9 |-> 0], <<127>> \o [i \in 1..7 |-> 255],
     <<50, 48, 50, 48, 45, 49, 51, 45, 48, 49>>,
     <<50, 48, 50, 48, 45, 49, 45, 49>>,
     <<32, 50, 48, 50, 48, 45, 48, 49, 45, 48, 49>>,
     <<1, 0, 0, 0>> \o [i \in 1..12 |-> 0]}

Payloads == BytesUpTo(MaxLen) \cup {encode_data(f) : f \in Fields} \cup Malformed

Buffers == {<<>>} \cup {<<tag>> \o val : tag \in 0..12, val \in Payloads}

NoCodecCall ==
    [op |-> "given", given |-> "field", field |-> Null, buf |-> <<>>,
     encoded |-> [panic |-> FALSE, vec |-> <<>>], len |-> 0, out |-> Err("")]

InitCodec ==
    /\ last \in {[NoCodecCall EXCEPT !.field = f] : f \in Fields}
                    \cup {[NoCodecCall EXCEPT !.given = "buf", !.buf = b] : b \in Buffers}
    /\ ops = 0
    /\ txn = EmptyDb
    /\ env = EmptyDb
    /\ overflow_checks = TRUE
    /\ issued = {}
    /\ lock = Unlocked
    /\ threads = <<>>
    /\ dir = {}
    /\ lmdb_map = EmptyMap

\* what the codec leaves alone
uncoded == <<txn, env, overflow_checks, issued, lock, threads, dir, lmdb_map>>

\* field.encode(), with field.encoding_len()
CodecEncode ==
    /\ last.op = "given"
    /\ last.given = "field"
    /\ last' = [last EXCEPT !.op = "encode", !.encoded = encode(last.field),
                            !.len = encoding_len(last.field)]
    /\ ops' = ops + 1
    /\ UNCHANGED uncoded

\* Field::decode of the given buffer, or of what encode returned
CodecDecode ==
    /\ \/ last.op = "given" /\ last.given = "buf"
       \/ last.op = "encode" /\ ~last.encoded.panic
    /\ LET buf == IF last.given = "buf" THEN last.buf ELSE last.encoded.vec IN
       last' = [last EXCEPT !.op = "decode", !.buf = buf, !.out = decode(buf)]
    /\ ops' = ops + 1
    /\ UNCHANGED uncoded

NextCodec == CodecEncode \/ CodecDecode

Codec == InitCodec /\ [][NextCodec]_vars

(* ------------------------ the chunked intersection --------------------- *)
\* The scans of the filters of a conjunction are given, each the record ids
\* of one index scan in the order the scan yields them, with the
\* intersection_chunk_size of the cache.  Each step is one round of the
\* intersection: it drains a chunk from every scan, intersects the chunks
\* as sets and yields the survivors.  last holds the scans, how much of
\* each was drained, and the ids yielded so far.

Ids == 1..MaxScan

\* an index scan yields a record id once
Scans == {s \in UNION {[1..n -> Ids] : n \in 0..MaxScan} :
              \A i, j \in DOMAIN s : i # j => s[i] # s[j]}

ChunkSizes == 1..MaxScan

NoRound ==
    [op |-> "query", scans |-> <<>>, intersection_chunk_size |-> 1, drained |-> <<>>,
     yielded |-> <<>>, exhausted |-> FALSE]

\* up to intersection_chunk_size ids of a scan, after the drained ones
Chunk(scan, drained, intersection_chunk_size) ==
    SubSeq(scan, drained + 1,
           IF drained + intersection_chunk_size < Len(scan)
           THEN drained + intersection_chunk_size ELSE Len(scan))

Range(s) == {s[i] : i \in DOMAIN s}

\* one round: the buffers are the chunks just drained
intersection(call) ==
    LET chunks == [i \in DOMAIN call.scans |->
                      Chunk(call.scans[i], call.drained[i], call.intersection_chunk_size)]
    IN  IF \A i \in DOMAIN chunks : chunks[i] = <<>>
        THEN [call EXCEPT !.op = "next", !.exhausted = TRUE]
        ELSE [call EXCEPT
                 !.op = "next",
                 !.drained = [i \in DOMAIN call.scans |-> call.drained[i] + Len(chunks[i])],
                 !.yielded = @ \o IdOrder({id \in Range(chunks[1]) :
                                              \A i \in DOMAIN chunks : id \in Range(chunks[i])})]

InitIntersecting ==
    /\ last \in {[NoRound EXCEPT !.scans = <<a, b>>, !.drained = <<0, 0>>,
                                 !.intersection_chunk_size = n] :
                    a \in Scans, b \in Scans, n \in ChunkSizes}
    /\ ops = 0
    /\ txn = EmptyDb
    /\ env = EmptyDb
    /\ overflow_checks = TRUE
    /\ issued = {}
    /\ lock = Unlocked
    /\ threads = <<>>
    /\ dir = {}
    /\ lmdb_map = EmptyMap

IntersectionNext ==
    /\ ~last.exhausted
    /\ last' = intersection(last)
    /\ ops' = ops + 1
    /\ UNCHANGED <<txn, env, overflow_checks, issued, lock, threads, dir, lmdb_map>>

Intersecting == InitIntersecting /\ [][IntersectionNext]_vars

(* ------------------- commit and get_checkpoint in steps ---------------- *)
\* The threads of the writing process call commit and get_checkpoint.  A
\* commit is followed statement by statement under its write guard: clear,
\* the inserts of extend one by one, commit_and_renew.  last.installed is
\* the argument of the last commit that returned (the checkpoint in force).

CheckpointIdle ==
    [pc |-> "idle", holds |-> "", op |-> "", checkpoint |-> EmptyMap, rest |-> <<>>,
     got |-> EmptyMap]

InitCheckpointing ==
    /\ txn = EmptyDb
    /\ env = EmptyDb
    /\ last = [op |-> "open", installed |-> get_checkpoint(EmptyDb)]
    /\ ops = 0
    /\ lock = Unlocked
    /\ threads = [t \in Threads |-> CheckpointIdle]
    /\ overflow_checks = TRUE
    /\ issued = {}
    /\ dir = {}
    /\ lmdb_map = EmptyMap

\* what no step of commit or get_checkpoint changes
unchecked == <<overflow_checks, issued, dir, lmdb_map>>

CheckpointCanCall(t) == threads[t].pc \in {"idle", "done"} /\ ops < MaxCheckpointCalls

\* commit(checkpoint) up to self.txn.write()
CallCommitSteps(t) ==
    /\ CheckpointCanCall(t)
    /\ \E checkpoint \in Checkpoints :
         threads' = [threads EXCEPT ![t] =
             [CheckpointIdle EXCEPT !.pc = "write", !.op = "commit",
                                    !.checkpoint = checkpoint,
                                    !.rest = Entries(checkpoint)]]
    /\ ops' = ops + 1
    /\ UNCHANGED <<txn, env, last, lock>>
    /\ UNCHANGED unchecked

\* get_checkpoint up to self.txn.read()
CallGetCheckpoint(t) ==
    /\ CheckpointCanCall(t)
    /\ threads' = [threads EXCEPT ![t] =
           [CheckpointIdle EXCEPT !.pc = "read", !.op = "get_checkpoint"]]
    /\ ops' = ops + 1
    /\ UNCHANGED <<txn, env, last, lock>>
    /\ UNCHANGED unchecked

\* let mut txn = self.txn.write()
CommitWriteLock(t) ==
    /\ threads[t].pc = "write"
    /\ write_ready(lock)
    /\ lock' = write(lock, t)
    /\ threads' = [threads EXCEPT ![t] = [@ EXCEPT !.pc = "clear", !.holds = "write"]]
    /\ UNCHANGED <<txn, env, last, ops>>
    /\ UNCHANGED unchecked

\* self.checkpoint_db.clear(txn.txn_mut())
CommitClear(t) ==
    /\ threads[t].pc = "clear"
    /\ txn' = [txn EXCEPT !.checkpoint = LmdbMap_clear(@)]
    /\ threads' = [threads EXCEPT ![t].pc = "extend"]
    /\ UNCHANGED <<env, last, ops, lock>>
    /\ UNCHANGED unchecked

\* one insert of self.checkpoint_db.extend(txn.txn_mut(), checkpoint)
CommitExtend(t) ==
    /\ threads[t].pc = "extend"
    /\ threads[t].rest # <<>>
    /\ LET pair == Head(threads[t].rest) IN
       txn' = [txn EXCEPT !.checkpoint = LmdbMap_insert(@, pair[1], pair[2]).map]
    /\ threads' = [threads EXCEPT ![t].rest = Tail(@)]
    /\ UNCHANGED <<env, last, ops, lock>>
    /\ UNCHANGED unchecked

\* txn.commit_and_renew(), and the write guard is dropped as commit returns
CommitAndRenew(t) ==
    /\ threads[t].pc = "extend"
    /\ threads[t].rest = <<>>
    /\ LET r == commit_and_renew(txn) IN
       /\ txn' = r.txn
       /\ env' = r.env
    /\ last' = [op |-> "commit", installed |-> threads[t].checkpoint]
    /\ threads' = [threads EXCEPT ![t] = [@ EXCEPT !.pc = "done", !.holds = ""]]
    /\ lock' = drop(lock, t)
    /\ UNCHANGED ops
    /\ UNCHANGED unchecked

\* (a read guard given while a writer holds the lock)
GetCheckpointReadLock_no_wait(t) ==
    /\ threads[t].pc = "read"
    /\ lock' = read(lock, t)
    /\ threads' = [threads EXCEPT ![t] = [@ EXCEPT !.pc = "iter", !.holds = "read"]]
    /\ UNCHANGED <<txn, env, last, ops>>
    /\ UNCHANGED unchecked

\* let txn = self.txn.read()
GetCheckpointReadLock(t) ==
    /\ threads[t].pc = "read"
    /\ read_ready(lock)
    /\ lock' = read(lock, t)
    /\ threads' = [threads EXCEPT ![t] = [@ EXCEPT !.pc = "iter", !.holds = "read"]]
    /\ UNCHANGED <<txn, env, last, ops>>
    /\ UNCHANGED unchecked

\* self.checkpoint_db.iter(txn.txn()) collected, and the guard is dropped
GetCheckpointIter(t) ==
    /\ threads[t].pc = "iter"
    /\ threads' = [threads EXCEPT ![t] =
           [@ EXCEPT !.pc = "done", !.holds = "", !.got = get_checkpoint(txn)]]
    /\ lock' = drop(lock, t)
    /\ UNCHANGED <<txn, env, last, ops>>
    /\ UNCHANGED unchecked

NextCheckpointing ==
    \E t \in Threads :
        \/ CallCommitSteps(t) \/ CallGetCheckpoint(t)
        \/ CommitWriteLock(t) \/ CommitClear(t) \/ CommitExtend(t) \/ CommitAndRenew(t)
        \/ GetCheckpointReadLock(t) \/ GetCheckpointIter(t)

Checkpointing == InitCheckpointing /\ [][NextCheckpointing]_vars

(* ------------------------------ properties ---------------------------- *)

\* the primary key get_primary_key gives a record under its own schema
PrimaryKey(record) ==
    get_primary_key(get_schema(record.schema_id).schema.primary_index, record.values)

\* key is bound to a record that is in the record store
Live(db, key) == get(db, key).err = ""

(* C1: after commit(checkpoint), get_checkpoint() returns exactly the map   *)
(* passed to that commit, and it keeps returning it until the next commit:  *)
(* no entry of an earlier commit survives and no other call changes it.     *)
C1_CheckpointIsLastCommit ==
    [][/\ last'.op = "commit" => get_checkpoint(txn') = last'.checkpoint
       /\ last'.op # "commit" => get_checkpoint(txn') = get_checkpoint(txn)
       /\ last'.op = "get_checkpoint" => last'.checkpoint = get_checkpoint(txn')]_vars

\* commit({nA -> op3}) on a checkpoint store that held two entries
C1_Witness ==
    /\ last.op = "commit"
    /\ last.before.checkpoint = 2
    /\ DOMAIN get_checkpoint(txn) = {"nA"}
    /\ get_checkpoint(txn)["nA"] = op3

C3_InsertExistingKey ==
    [][(/\ last'.op = "insert"
        /\ last'.record.schema_id = SchemaB.identifier
        /\ Live(txn, PrimaryKey(last'.record)))
       => (last'.err = PrimaryKeyExists /\ txn' = txn)]_vars

\* an insert was refused with PrimaryKeyExists
C3_Witness ==
    /\ last.op = "insert"
    /\ last.err = PrimaryKeyExists
    /\ Live(txn, PrimaryKey(last.record))

(* C4: update(key, record) on a key bound to a live record with version v   *)
(* returns v; afterwards get by the new record's primary key returns the    *)
(* new field values with version v + 1, and get(key) returns                *)
(* PrimaryKeyNotFound when the new primary key differs from key.            *)
C4_UpdateReturnsPriorVersion ==
    [][(last'.op = "update" /\ Live(txn, last'.key))
       => LET v == get(txn, last'.key).record.version
              new == get(txn', PrimaryKey(last'.record))
          IN  /\ last'.err = ""
              /\ last'.ret = v
              /\ new.err = ""
              /\ new.record.values = last'.record.values
              /\ new.record.version = Succ(v)
              /\ PrimaryKey(last'.record) # last'.key
                    => get(txn', last'.key).err = PrimaryKeyNotFound]_vars

(* C5: every record in the record store has a version, and it is at least 1.*)
C5_VersionAtLeastOne ==
    \A id \in DOMAIN txn.records :
        /\ txn.records[id].version # None
        /\ txn.records[id].version # U32(0, 0)

(* C6: get, update and delete with a key that is bound to no live record    *)
(* (never inserted, or deleted and not inserted again) return               *)
(* PrimaryKeyNotFound and leave the record store, the primary-key map, the  *)
(* secondary indexes and the version of the caller's record unchanged.      *)
C6_UnknownKeyNotFound ==
    [][(last'.op \in {"get", "update", "delete"} /\ ~Live(txn, last'.key))
       => /\ last'.err = PrimaryKeyNotFound
          /\ txn' = txn
          /\ last'.op = "update" => last'.version = last'.record.version]_vars

\* update of a key whose record was deleted, with a record that carries a
\* version
C6_Witness ==
    /\ last.op = "update"
    /\ last.err = PrimaryKeyNotFound
    /\ last.key \in DOMAIN txn.primary_index
    /\ last.record.version # None

\* the pairs of index x that refer to record id
PairsOf(db, x, id) == {p \in db.secondary[x] : p[2] = id}

\* the index definitions of the schema with identifier id
IndexesOf(id) == get_schema(id).secondary_indexes

C8_RecordKeyBound ==
    \A db \in {txn, env} :
        \A id \in DOMAIN db.records :
            LET record == db.records[id]
                found == get(db, PrimaryKey(record))
            IN  get_schema(record.schema_id).schema.primary_index # <<>>
                    => found.err = "" /\ found.id = id /\ found.record = record

\* an update moved a record to another primary key
C8_Witness ==
    /\ last.op = "update"
    /\ last.err = ""
    /\ PrimaryKey(last.record) # last.key
    /\ Live(txn, PrimaryKey(last.record))

SameReads == ReadResults(LmdbRoCache_begin_txn) = ReadResults(LmdbRwCache_begin_txn)

WriteOps == {"insert", "update", "delete"}

ReadOps == {"get", "query", "get_checkpoint", "ro_read"}

(* C13: insert, update and delete, whether they succeed or fail, leave what *)
(* get, count and query return on a read-only cache of the directory as it  *)
(* was; it changes only in a commit.                                        *)
C13_WritesInvisibleUntilCommit ==
    [][/\ last'.op \in WriteOps
           => ReadResults(LmdbRoCache_begin_txn)' = ReadResults(LmdbRoCache_begin_txn)
       /\ ReadResults(LmdbRoCache_begin_txn)' # ReadResults(LmdbRoCache_begin_txn)
           => last'.op = "commit"
       /\ (last'.op = "ro_read" /\ last.op \in WriteOps)
           => last'.results = ReadResults(env)]_vars

\* a read-only cache reads after an update that was not committed: it gets
\* what the directory held before the update
C13_Witness ==
    /\ last.op = "ro_read"
    /\ last.results # ReadResults(txn)
    /\ last.results = ReadResults(env)
    /\ \E q \in Queries : last.results.count[q] > 0

(* C14: right after a commit, and for as long as only reads follow it, get  *)
(* of every key and count and query of every query return the same on a     *)
(* read-only cache of the directory as on the read/write cache.             *)
C14_ReadOnlyEqualsReadWrite ==
    [][/\ last'.op = "commit" => SameReads'
       /\ (last'.op \in ReadOps /\ SameReads) => SameReads'
       /\ (last'.op = "ro_read" /\ SameReads)
           => last'.results = ReadResults(LmdbRwCache_begin_txn)]_vars

\* writes, a commit, then a read-only cache reads: it finds the records
C14_Witness ==
    /\ last.op = "ro_read"
    /\ env = txn
    /\ env.records # EmptyMap
    /\ env.records # UsedDb.records
    /\ \E q \in Queries : Len(last.results.query[q]) > 0

(* C15: a get, count or query on the read/write cache right after a         *)
(* successful insert, update or delete reflects that write, committed or    *)
(* not: get of the written record's key returns it with the id and version  *)
(* the write gave it, get of a deleted or moved key returns                 *)
(* PrimaryKeyNotFound, and the unfiltered query and count of the schema     *)
(* hold the written record and not the removed one.                         *)
C15_ReadsSeeUncommitted ==
    [][(last.op \in WriteOps /\ last.err = "")
       => /\ (last'.op = "get" /\ last.op \in {"insert", "update"}
                 /\ last'.key = KeyOf(last.record))
             => /\ last'.err = ""
                /\ last'.got = [last.record EXCEPT !.version = last.version]
                /\ last.op = "insert" => last'.ret = last.ret
          /\ (last'.op = "get" /\ last.op \in {"update", "delete"}
                 /\ last'.key = last.key
                 /\ (last.op = "update" => KeyOf(last.record) # last.key))
             => last'.err = PrimaryKeyNotFound
          /\ (last'.op = "query" /\ last'.query[2] = NoFilter)
             => /\ last'.ret = Len(last'.rows)
                /\ (last.op \in {"insert", "update"}
                      /\ get_schema_from_name(last'.query[1]).schema.identifier
                             = last.record.schema_id)
                   => \E i \in DOMAIN last'.rows :
                          /\ last'.rows[i].record
                                 = [last.record EXCEPT !.version = last.version]
                          /\ last.op = "insert" => last'.rows[i].id = last.ret
                /\ (last.op \in {"update", "delete"}
                      /\ (last.op = "update" => KeyOf(last.record) # last.key))
                   => \A i \in DOMAIN last'.rows :
                          KeyOf(last'.rows[i].record) # last.key]_vars

\* get on the read/write cache returns a record that no commit has made
\* durable
C15_Witness ==
    /\ last.op = "get"
    /\ last.err = ""
    /\ get(env, last.key).err = PrimaryKeyNotFound
    /\ last.got.version = INITIAL_RECORD_VERSION

(* C12: a read-only cache sees each write call whole.  No transaction is    *)
(* committed while an update of another thread has removed its old record   *)
(* and not yet stored its new one, so the committed snapshot never lacks    *)
(* both.                                                                    *)
C12_ReadersSeeWholeCalls ==
    \A u \in Threads :
        (u \in last.torn /\ MidUpdate(u))
            => \/ get(env, threads[u].key).err = ""
               \/ get(env, KeyOf(threads[u].record)).err = ""

(* C16: at every instant at most one thread holds the write guard of the    *)
(* shared transaction, and while one does no thread holds a read guard; a   *)
(* thread holds a guard only inside the function that took it; and every    *)
(* step that changes the record store, the primary-key map, the secondary   *)
(* indexes, the checkpoint store or the committed snapshot is taken by the  *)
(* one thread that holds the write guard.                                   *)
C16_WritersExclusive ==
    /\ [](/\ Cardinality(lock.writers) <= 1
          /\ lock.writers # {} => lock.readers = {}
          /\ \A t \in Threads :
                 /\ t \in lock.writers <=> threads[t].holds = "write"
                 /\ t \in lock.readers <=> threads[t].holds = "read")
    /\ [][(txn' # txn \/ env' # env)
            => \E t \in Threads :
                   /\ lock.writers = {t}
                   /\ threads[t].holds = "write"
                   /\ threads'[t].holds = ""
                   /\ \A u \in Threads \ {t} : threads'[u] = threads[u]]_vars

\* two writers contend: one is inside insert_impl with the write guard, the
\* other has called and waits for it
C16_Witness ==
    \E t, u \in Threads :
        /\ t # u
        /\ lock.writers = {t}
        /\ threads[t].pc = "insert_impl"
        /\ threads[u].pc \in {"delete_impl", "insert_impl", "commit"}
        /\ threads[u].holds = ""

(* C17: a write call that returns an error leaves nothing behind: the       *)
(* record store, the primary-key map, the id counter, the secondary indexes *)
(* and the checkpoint store are what they were before the call.  An update  *)
(* refused with PrimaryKeyExists leaves the record stored under its key in  *)
(* place.                                                                   *)
C17_ErrorLeavesNoEffect ==
    [][(last'.op \in WriteOps \cup {"commit"} /\ last'.err \notin {"", Panic})
       => /\ txn' = txn
          /\ (last'.op = "update" /\ last'.err = PrimaryKeyExists)
             => get(txn', last'.key) = get(txn, last'.key)]_vars

C19_InsertNoOverwrite ==
    [][/\ last'.op = "insert"
          => /\ last'.ret = (last'.key \notin DOMAIN lmdb_map)
             /\ last'.ret
                   => /\ LmdbMap_get(lmdb_map', last'.key)
                            = [some |-> TRUE, v |-> last'.value]
                      /\ LmdbMap_count(lmdb_map') = LmdbMap_count(lmdb_map) + 1
                      /\ \A k \in DOMAIN lmdb_map :
                             LmdbMap_get(lmdb_map', k) = LmdbMap_get(lmdb_map, k)
             /\ ~last'.ret => lmdb_map' = lmdb_map
       /\ (last.op = "insert" /\ last'.op = "get" /\ last'.key = last.key)
          => /\ last'.got.some
             /\ last'.got.v = IF last.ret THEN last.value ELSE last.before[last.key]]_vars

\* an insert of a second value under a key was refused and the first value
\* is still there
C19_Witness ==
    /\ last.op = "insert"
    /\ ~last.ret
    /\ lmdb_map[last.key] # last.value
    /\ LmdbMap_count(lmdb_map) = 1

(* C20: after any sequence of insert, remove and clear, count is the number *)
(* of distinct keys the calls have left in the map (a key is in after an    *)
(* insert of it, out after a remove of it or a clear).  remove returns true *)
(* exactly when the key was present; then the count is one less and get of  *)
(* the key returns None; when it returns false the map is as it was.        *)
C20_CountIsKeysPresent ==
    /\ [](/\ LmdbMap_count(lmdb_map) = Cardinality(last.present)
          /\ \A k \in MapKeys : LmdbMap_get(lmdb_map, k).some <=> k \in last.present
          /\ last.op = "count" => last.count = Cardinality(last.present))
    /\ [][last'.op = "remove"
            => /\ last'.ret = (last'.key \in last.present)
               /\ last'.ret
                     => /\ LmdbMap_count(lmdb_map') = LmdbMap_count(lmdb_map) - 1
                        /\ ~LmdbMap_get(lmdb_map', last'.key).some
               /\ ~last'.ret => lmdb_map' = lmdb_map]_vars

\* two keys were inserted and one of them removed
C20_Witness ==
    /\ last.op = "remove"
    /\ last.ret
    /\ LmdbMap_count(lmdb_map) = 1
    /\ last.present # {}

\* #[derive(PartialEq)] of Field: the same variant with equal payloads.  Two
\* DateTime are equal when they are the same instant, whatever their
\* offsets; two OrderedFloat are equal when both are NaN or the f64 are
\* equal (+0.0 = -0.0); two Decimal are equal when both are zero or sign,
\* scale and mantissa agree (equal numbers of different scales never meet
\* here).
FieldEq(a, b) ==
    LET IsNaN(x) == x[1] % 32768 >= 32752 /\ (x[1] % 16 # 0 \/ <<x[2], x[3], x[4]>> # <<0, 0, 0>>)
        IsZero(x) == x[1] % 32768 = 0 /\ <<x[2], x[3], x[4]>> = <<0, 0, 0>>
        Mantissa(d) == <<d.lo, d.mid, d.hi>>
        Zero == <<U32(0, 0), U32(0, 0), U32(0, 0)>>
    IN  /\ a.typ = b.typ
        /\ CASE a.typ = "Timestamp" ->
                    /\ a.timestamp.millis = b.timestamp.millis
                    /\ a.timestamp.nanos = b.timestamp.nanos
             [] a.typ = "Float" ->
                    \/ IsNaN(a.v) /\ IsNaN(b.v)
                    \/ IsZero(a.v) /\ IsZero(b.v)
                    \/ ~IsNaN(a.v) /\ a.v = b.v
             [] a.typ = "Decimal" ->
                    \/ Mantissa(a.decimal) = Zero /\ Mantissa(b.decimal) = Zero
                    \/ a.decimal = b.decimal
             [] OTHER -> a = b

\* C21: for every Field f of every variant, f.encode() returns and
\* Field::decode of it succeeds and equals f.
C21_RoundTrip ==
    /\ last.op = "encode" => ~last.encoded.panic
    /\ last.op = "decode" /\ last.given = "field"
          => last.out.res = "Ok" /\ FieldEq(last.out.field, last.field)

\* C22: for every Field f, encoding_len(f) is 1 + the length of
\* encode_data(f), so encode(f) returns encoding_len(f) bytes that start with
\* the type tag of f, and encode_buf into that many bytes does not panic.
C22_EncodingLenAgrees ==
    last.op = "encode"
        => /\ last.len = 1 + Len(encode_data(last.field))
           /\ ~last.encoded.panic
           /\ Len(last.encoded.vec) = last.len
           /\ last.encoded.vec[1] = get_type_prefix(last.field)

\* the payload lengths of the fixed-width variants
FixedWidth(return_type) ==
    CASE return_type \in {"Int", "UInt", "Float", "Timestamp"} -> 8
      [] return_type = "Boolean" -> 1
      [] return_type = "Decimal" -> 16
      [] OTHER -> -1

\* C23: Field::decode returns for every buffer, either a Field or one of
\* four errors: EmptyInput for the empty buffer, the unknown-tag error for a
\* first byte above 11, BadDataLength for a fixed-width payload of the wrong
\* length (a Boolean with no payload included), the UTF-8 error; and what it
\* decodes is the Field the buffer encodes.
C23_DecodeTotal ==
    last.op = "decode"
        => /\ last.out.res \in {"Ok", "Err"}
           /\ last.out.res = "Err"
                 => last.out.err \in {EmptyInput, UnrecognisedFieldType,
                                      BadDataLength, Utf8Error}
           /\ last.buf = <<>> => last.out = Err(EmptyInput)
           /\ last.buf # <<>> /\ last.buf[1] > 11 => last.out = Err(UnrecognisedFieldType)
           /\ last.buf # <<>> /\ last.buf[1] <= 11
                 /\ FixedWidth(type_from_prefix(last.buf[1])) >= 0
                 /\ Len(last.buf) - 1 # FixedWidth(type_from_prefix(last.buf[1]))
                 => last.out = Err(BadDataLength)
           /\ last.out.res = "Ok" => encode(last.out.field).vec = last.buf

\* C24: a conjunction served by several index scans yields exactly the ids
\* that are in every scan, each once, whatever the intersection_chunk_size
\* and wherever a common id stands in each scan.
C24_IntersectionOfScans ==
    last.exhausted
        => /\ Range(last.yielded) = {id \in Ids : \A i \in DOMAIN last.scans :
                                                     id \in Range(last.scans[i])}
           /\ \A i, j \in DOMAIN last.yielded : i # j => last.yielded[i] # last.yielded[j]


\* C25: extend inserts every pair of the iterator whose key is not yet in
\* the map and returns Ok: a key that was in the map keeps its value, a new
\* key gets the value of its first pair in the iterator, and no other key
\* appears.
C25_ExtendIgnoresExisting ==
    [][last'.op = "extend"
          => /\ last'.ret
             /\ DOMAIN lmdb_map' = DOMAIN lmdb_map
                                      \cup {last'.pairs[i][1] : i \in DOMAIN last'.pairs}
             /\ \A k \in DOMAIN lmdb_map : lmdb_map'[k] = lmdb_map[k]
             /\ \A i \in DOMAIN last'.pairs :
                    (/\ last'.pairs[i][1] \notin DOMAIN lmdb_map
                     /\ \A j \in 1..(i - 1) : last'.pairs[j][1] # last'.pairs[i][1])
                        => lmdb_map'[last'.pairs[i][1]] = last'.pairs[i][2]]_vars

\* an extend given a pair for a key of the map with another value, and two
\* pairs with different values for a key that was not in the map
C25_Witness ==
    /\ last.op = "extend"
    /\ last.ret
    /\ \E i, j, l \in DOMAIN last.pairs :
          /\ last.pairs[i][1] \in DOMAIN last.before
          /\ last.before[last.pairs[i][1]] # last.pairs[i][2]
          /\ lmdb_map[last.pairs[i][1]] = last.before[last.pairs[i][1]]
          /\ j < l
          /\ last.pairs[j][1] = last.pairs[l][1]
          /\ last.pairs[j][1] \notin DOMAIN last.before
          /\ last.pairs[j][2] # last.pairs[l][2]
          /\ \A h \in 1..(j - 1) : last.pairs[h][1] # last.pairs[j][1]
          /\ lmdb_map[last.pairs[j][1]] = last.pairs[j][2]

\* C26: whenever a thread runs delete_impl under the write lock, for a delete
\* or an update, the record its get read under the read lock is still in
\* the record store, so the removal succeeds and no call panics there.
C26_GotRecordStillThere ==
    [][\A t \in Threads :
           (/\ threads[t].pc = "delete_impl"
            /\ threads[t].holds = "write"
            /\ threads'[t].holds = "")
               => /\ LmdbMap_get(txn.records, threads[t].got.id).some
                  /\ threads'[t].pc = "panicked"
                         => add_one_u32(threads[t].got.record.version, overflow_checks).panic]_vars

\* thread t runs the insert_impl of an insert under the write guard
InsertStep(t) ==
    /\ threads[t].op = "insert"
    /\ threads[t].pc = "insert_impl"
    /\ threads[t].holds = "write"
    /\ threads'[t].pc = "done"

\* C27: of two inserts of one primary key that are in progress together
\* while no live record holds the key, the one that takes the write lock
\* first returns the id and stores its record with its index entries; the
\* other then returns PrimaryKeyExists and changes nothing, so the key has
\* one record, that of the successful call, and one set of index entries.
C27_OneInsertWins ==
    [][\A t, u \in Threads :
           (/\ t # u
            /\ InsertStep(t)
            /\ threads[u].op = "insert"
            /\ KeyOf(threads[t].record) # <<>>
            /\ KeyOf(threads[u].record) = KeyOf(threads[t].record))
               => LET key == KeyOf(threads[t].record)
                      schema_id == threads[t].record.schema_id
                  IN  /\ (threads[u].pc = "insert_impl" /\ ~Live(txn, key))
                            => /\ threads'[t].err = ""
                               /\ threads'[t].ret = <<get(txn', key).id>>
                               /\ get(txn', key).record = threads[t].record
                               /\ \A x \in IndexIds :
                                      PairsOf(txn', x, get(txn', key).id)
                                          = IF x[1] = schema_id
                                            THEN IndexPairs(IndexesOf(schema_id), x[2],
                                                            threads[t].record,
                                                            get(txn', key).id)
                                            ELSE {}
                      /\ (/\ threads[u].pc = "done"
                          /\ threads[u].err = ""
                          /\ Live(txn, key)
                          /\ get(txn, key).record = threads[u].record)
                            => /\ threads'[t].err = PrimaryKeyExists
                               /\ threads'[t].ret = None
                               /\ txn' = txn]_vars

\* two threads have inserted different records of one primary key: one has
\* the id, the other PrimaryKeyExists, and the key's record is the first's
C27_Witness ==
    \E t, u \in Threads :
        /\ t # u
        /\ threads[t].op = "insert" /\ threads[t].pc = "done" /\ threads[t].err = ""
        /\ threads[u].op = "insert" /\ threads[u].pc = "done"
        /\ threads[u].err = PrimaryKeyExists
        /\ KeyOf(threads[t].record) # <<>>
        /\ KeyOf(threads[u].record) = KeyOf(threads[t].record)
        /\ threads[u].record # threads[t].record
        /\ get(txn, KeyOf(threads[t].record)).err = ""
        /\ get(txn, KeyOf(threads[t].record)).record = threads[t].record
        /\ threads[t].ret = <<get(txn, KeyOf(threads[t].record)).id>>

\* a call of thread t has ended: it returned, or it panicked and unwound
Ended(t) == threads[t].pc \in {"idle", "done", "panicked"}

C29_CheckpointNeverTorn ==
    [][\A t \in Threads :
           (threads[t].pc = "iter" /\ threads'[t].pc = "done")
               => /\ threads'[t].got = last.installed
                  /\ \A u \in Threads :
                         threads[u].pc \notin {"clear", "extend"}]_vars

\* a get_checkpoint has returned the two entries in force while the other
\* thread, committing another checkpoint, has cleared the store
C29_Witness ==
    \E t, u \in Threads :
        /\ t # u
        /\ threads[t].op = "get_checkpoint"
        /\ threads[t].pc = "done"
        /\ threads[t].got = last.installed
        /\ DOMAIN threads[t].got = {"nA", "nB"}
        /\ threads[u].op = "commit"
        /\ threads[u].pc = "extend"
        /\ threads[u].rest # <<>>
        /\ txn.checkpoint = EmptyMap

\* C30: the primary-key map is injective on record ids.  No two primary keys
\* are bound to one record id, no record of a schema without primary index
\* has the id of a bound key, the next free id of the allocator is none of
\* the ids bound, stored or handed out, and a successful insert stores its
\* record under an id that held no record, leaving every other record as it
\* was.
C30_IdsInjective ==
    /\ [](/\ \A k1, k2 \in DOMAIN txn.primary_index :
                 k1 # k2 => txn.primary_index[k1] # txn.primary_index[k2]
          /\ \A id \in DOMAIN txn.records :
                 KeyOf(txn.records[id]) = <<>>
                     => \A k \in DOMAIN txn.primary_index : txn.primary_index[k] # id
          /\ \A k \in DOMAIN txn.primary_index : txn.primary_index[k] # txn.counter
          /\ txn.counter \notin DOMAIN txn.records
          /\ \A p \in issued : p[2] # txn.counter)
    /\ [][(last'.op = "insert" /\ last'.err = "")
            => /\ last'.ret \notin DOMAIN txn.records
               /\ \A id \in DOMAIN txn.records : txn'.records[id] = txn.records[id]]_vars

\* both primary keys are bound, a record without primary key is stored, and
\* an insert has just been given its id
C30_Witness ==
    /\ last.op = "insert"
    /\ last.err = ""
    /\ LmdbMap_count(txn.primary_index) = 2
    /\ \E id \in DOMAIN txn.records : KeyOf(txn.records[id]) = <<>>
    /\ \E id \in DOMAIN txn.records : KeyOf(txn.records[id]) # <<>>

\* a < b on two u32
U32_less(a, b) == a[1] < b[1] \/ (a[1] = b[1] /\ a[2] < b[2])

\* C31: for every version v a u32 holds, 2^32 - 1 included, an update of a
\* live record with version v does not abort after the old record has been
\* removed, and when it succeeds the record it stores has a version strictly
\* greater than v.
C31_UpdateVersionGrows ==
    [][(last'.op = "update" /\ Live(txn, last'.key))
       => LET v == get(txn, last'.key).record.version
          IN  /\ last'.err # Panic
              /\ last'.err = ""
                    => U32_less(v, get(txn', PrimaryKey(last'.record)).record.version)]_vars

====
